---- MODULE Spec2Model ----
(***************************************************************************)
(* kueue-bench: WorkerSet expansion (pkg/config/workerset.go), management  *)
(* config derivation (pkg/config/multikueue.go) and topology validation    *)
(* (pkg/config/validate.go); the sharing of label maps between the input   *)
(* and the output of the expansion; the provisioning of the Kueue objects  *)
(* (pkg/kueue/provisioner.go); the creation of a topology, step by step    *)
(* (pkg/topology: Create, from cmd: runTopologyCreate).                    *)
(*                                                                         *)
(* Go values are modelled as follows.                                      *)
(*   struct            record with the Go field names                      *)
(*   slice             sequence                                            *)
(*   map[string]T      function whose DOMAIN is the set of keys            *)
(*   nil *KueueConfig  the value Nil                                       *)
(*   quantity string   record [mant, suf]: a decimal mantissa followed by  *)
(*                     a suffix, "500m" = [mant |-> 500, suf |-> "m"];     *)
(*                     the suffix "x" stands for text that does not parse  *)
(*                     and "<empty>" for the empty string                  *)
(*   resource.Quantity record [milli, format]: the exact value counted in  *)
(*                     thousandths, and the Format the library remembers   *)
(*   a Go map as a reference (where writes through it matter): the record  *)
(*                     [ref |-> address], the map itself being heap[address]*)
(***************************************************************************)
EXTENDS Integers, Sequences, FiniteSets, TLC

VARIABLES
    topo,        \* the topology loaded
    validated,   \* what ValidateTopology returned
    expanded,    \* what ExpandWorkerSets returned
    derived,     \* what DeriveManagementKueueConfig returned
    heap,        \* the label maps that are held by reference, by address
    kueueConfig, \* the config ProvisionKueueObjects is given
    calls,       \* the Create calls ProvisionKueueObjects has made, in order
    returned,    \* what ProvisionKueueObjects returned
    clusterObjects, \* the Kueue objects on the cluster of the client, by kind and name
    position,    \* where runTopologyCreate and topology.Create have come to
    createdClusters, \* the kind clusters Create tracks for the cleanup on error
    metadata,    \* t.metadata.Clusters: kind cluster name by cluster name
    host,        \* the kind clusters, the topology directory and the metadata file
    trace,       \* the calls runTopologyCreate and Create have made, in order
    createErr    \* what topology.Create returned: its named result err

provisionVars == <<kueueConfig, calls, returned, clusterObjects>>

createVars == <<position, createdClusters, metadata, host, trace, createErr>>

vars == <<topo, validated, expanded, derived, heap, kueueConfig, calls, returned,
          clusterObjects, position, createdClusters, metadata, host, trace, createErr>>

-----------------------------------------------------------------------------
(* Generic helpers *)

Nil == [nil |-> TRUE]

Absent == "-"

EmptyMap == [k \in {} |-> Absent]

MaxOf(S) == CHOOSE m \in S : \A n \in S : n <= m

MinOf(S) == CHOOSE m \in S : \A n \in S : m <= n

RECURSIVE ConcatAll(_)
ConcatAll(ss) == IF ss = <<>> THEN <<>> ELSE Head(ss) \o ConcatAll(Tail(ss))

RECURSIVE SumSeq(_)
SumSeq(s) == IF s = <<>> THEN 0 ELSE Head(s) + SumSeq(Tail(s))

\* Go's map[name] = value inside a loop over a slice: the last entry with a
\* given key is the one the map keeps.
LastIndexNamed(s, key(_), n) == MaxOf({i \in DOMAIN s : key(s[i]) = n})

FirstIndexNamed(s, key(_), n) == MinOf({i \in DOMAIN s : key(s[i]) = n})

-----------------------------------------------------------------------------
(* k8s.io/apimachinery resource.Quantity, as the code uses it *)

Q(m, s) == [mant |-> m, suf |-> s]

EmptyStr == Q(0, "<empty>")

DecimalSuffixes == {"m", "", "k", "M"}

BinarySuffixes == {"Ki", "Mi"}

\* thousandths per unit of each suffix
SuffixMilli(s) ==
    CASE s = "m"  -> 1
      [] s = ""   -> 1000
      [] s = "k"  -> 1000000
      [] s = "M"  -> 1000000000
      [] s = "Ki" -> 1024000
      [] s = "Mi" -> 1048576000

\* resource.ParseQuantity: text to exact value, or an error
ParseQuantity(str) ==
    IF str.suf \in DecimalSuffixes \cup BinarySuffixes
    THEN [ok |-> TRUE,
          q  |-> [milli  |-> str.mant * SuffixMilli(str.suf),
                  format |-> IF str.suf \in BinarySuffixes THEN "BinarySI" ELSE "DecimalSI"]]
    ELSE [ok |-> FALSE, q |-> [milli |-> 0, format |-> ""]]

\* the zero value of resource.Quantity
ZeroQuantity == [milli |-> 0, format |-> ""]

\* (*Quantity).Add: exact; a zero receiver takes the argument's format
QuantityAdd(a, b) ==
    [milli  |-> a.milli + b.milli,
     format |-> IF a.milli = 0 THEN b.format ELSE a.format]

\* canonical decimal form: the largest power of 1000 that leaves an integer
DecimalCanonical(v) ==
    IF v = 0 THEN Q(0, "")
    ELSE IF v % 1000000000 = 0 THEN Q(v \div 1000000000, "M")
    ELSE IF v % 1000000 = 0 THEN Q(v \div 1000000, "k")
    ELSE IF v % 1000 = 0 THEN Q(v \div 1000, "")
    ELSE Q(v, "m")

\* canonical binary form: values below 1024 and fractional values are shown
\* as decimal; otherwise the largest power of 1024 that leaves an integer
BinaryCanonical(v) ==
    IF v < 1024000 \/ v % 1000 # 0 THEN DecimalCanonical(v)
    ELSE LET u == v \div 1000
         IN  IF u % 1048576 = 0 THEN Q(u \div 1048576, "Mi")
             ELSE IF u % 1024 = 0 THEN Q(u \div 1024, "Ki")
             ELSE Q(u, "")

\* (*Quantity).String
QuantityString(q) ==
    IF q.format = "BinarySI" THEN BinaryCanonical(q.milli) ELSE DecimalCanonical(q.milli)

\* resource.MustParse on text produced by QuantityString
MustParse(str) == ParseQuantity(str).q

-----------------------------------------------------------------------------
(* pkg/config/workerset.go: ExpandWorkerSets *)

RoleStandalone == "standalone"

RoleManagement == "management"

RoleWorker == "worker"

\* An error of the expansion, by the parts its message carries.
ExpandErr(kind, flavor, pool, resource) ==
    [kind |-> kind, ws |-> Absent, worker |-> Absent, cq |-> Absent,
     flavor |-> flavor, pool |-> pool, resource |-> resource]

NoErr == ExpandErr("nil", Absent, Absent, Absent)

\* the error of the first failing iteration of a loop, NoErr when none fails
FirstError(errs) ==
    LET bad == {i \in DOMAIN errs : errs[i] # NoErr}
    IN  IF bad = {} THEN NoErr ELSE errs[MinOf(bad)]

NameOf(x) == x.Name

\* flavorPools[f.Name] = f.NodePoolRef over ws.ResourceFlavors
FlavorPoolsOf(flavorDefs) ==
    [n \in {flavorDefs[i].Name : i \in DOMAIN flavorDefs} |->
        flavorDefs[LastIndexNamed(flavorDefs, NameOf, n)].NodePoolRef]

\* pools[p.Name] = p over worker.NodePools
PoolsOf(nodePools) ==
    [n \in {nodePools[i].Name : i \in DOMAIN nodePools} |->
        nodePools[LastIndexNamed(nodePools, NameOf, n)]]

\* tolerations that match any value of the taint's key
tolerateAnyValue(taints) ==
    [i \in DOMAIN taints |->
        [Key |-> taints[i].Key, Operator |-> "Exists", Value |-> "", Effect |-> taints[i].Effect]]

taintsToTolerations(taints) ==
    [i \in DOMAIN taints |->
        [Key |-> taints[i].Key, Operator |-> "Equal",
         Value |-> taints[i].Value, Effect |-> taints[i].Effect]]

deriveResourceFlavors(wsFlavorDefs, pools) ==
    LET missing == {i \in DOMAIN wsFlavorDefs : wsFlavorDefs[i].NodePoolRef \notin DOMAIN pools}
    IN  IF missing # {}
        THEN [err |-> ExpandErr("nodePoolRef not found in worker node pools", Absent,
                                wsFlavorDefs[MinOf(missing)].NodePoolRef, Absent),
              val |-> <<>>]
        ELSE [err |-> NoErr,
              val |-> [i \in DOMAIN wsFlavorDefs |->
                        LET pool == pools[wsFlavorDefs[i].NodePoolRef]
                        IN  [Name        |-> wsFlavorDefs[i].Name,
                             NodeLabels  |-> pool.Labels,
                             Tolerations |-> taintsToTolerations(pool.Taints)]]]

\* total := q.DeepCopy(); for i := 1; i < pool.Count; i++ { total.Add(q) }
RECURSIVE RepeatedAdd(_, _, _, _)
RepeatedAdd(total, q, i, count) ==
    IF i < count THEN RepeatedAdd(QuantityAdd(total, q), q, i + 1, count) ELSE total

\* count times the whole units of q: what multiplying Value(), an int64, gives
MultiplyWholeUnits(q, count) ==
    [milli |-> (q.milli \div 1000) * 1000 * MaxOf({count, 1}), format |-> q.format]

MultiplyByCount(q, count) == RepeatedAdd(q, q, 1, count)

deriveQuotas(coveredResources, pool) ==
    LET errAt(i) ==
            LET resName == coveredResources[i]
            IN  IF resName \notin DOMAIN pool.Resources
                THEN ExpandErr("covered resource not found in node pool", Absent, pool.Name, resName)
                ELSE IF ~ParseQuantity(pool.Resources[resName]).ok
                THEN ExpandErr("invalid quantity", Absent, pool.Name, resName)
                ELSE NoErr
        err == FirstError([i \in DOMAIN coveredResources |-> errAt(i)])
    IN  IF err # NoErr THEN [err |-> err, val |-> <<>>]
        ELSE [err |-> NoErr,
              val |-> [i \in DOMAIN coveredResources |->
                        LET q == ParseQuantity(pool.Resources[coveredResources[i]]).q
                        IN  [Name           |-> coveredResources[i],
                             NominalQuota   |-> QuantityString(MultiplyByCount(q, pool.Count)),
                             BorrowingLimit |-> EmptyStr,
                             LendingLimit   |-> EmptyStr]]]

\* The outcome of a loop whose iterations each return [err, val]: the error of
\* the first failing iteration and no value, or NoErr and every value in order.
FirstErrorOrAll(results) ==
    [err |-> FirstError([k \in DOMAIN results |-> results[k].err]),
     val |-> IF \A k \in DOMAIN results : results[k].err = NoErr
             THEN [k \in DOMAIN results |-> results[k].val]
             ELSE <<>>]

\* the body of the loop over rg.Flavors: the pool the flavor resolves to, then
\* its quotas
deriveFlavorQuotas(flavorName, coveredResources, flavorPools, pools) ==
    IF flavorName \notin DOMAIN flavorPools
    THEN [err |-> ExpandErr("flavor not defined in workerSet resourceFlavors",
                            flavorName, Absent, Absent),
          val |-> Nil]
    ELSE IF flavorPools[flavorName] \notin DOMAIN pools
    THEN [err |-> ExpandErr("nodePoolRef (from flavor) not found in worker node pools",
                            flavorName, flavorPools[flavorName], Absent),
          val |-> Nil]
    ELSE [err |-> deriveQuotas(coveredResources, pools[flavorPools[flavorName]]).err,
          val |-> [Name      |-> flavorName,
                   Resources |-> deriveQuotas(coveredResources,
                                              pools[flavorPools[flavorName]]).val]]

\* the body of the loop over wsRGs, given the outcome of its loop over the flavors
deriveResourceGroup(wsRG, flavors) ==
    [err |-> flavors.err,
     val |-> [CoveredResources |-> wsRG.CoveredResources, Flavors |-> flavors.val]]

deriveResourceGroups(wsRGs, flavorPools, pools) ==
    FirstErrorOrAll([g \in DOMAIN wsRGs |->
        deriveResourceGroup(wsRGs[g],
            FirstErrorOrAll([f \in DOMAIN wsRGs[g].Flavors |->
                deriveFlavorQuotas(wsRGs[g].Flavors[f].Name, wsRGs[g].CoveredResources,
                                   flavorPools, pools)]))])

\* the body of the loop over wsCQs, given the outcome of deriveResourceGroups
deriveClusterQueue(wsCQ, rgs) ==
    [err |-> IF rgs.err = NoErr THEN NoErr ELSE [rgs.err EXCEPT !.cq = wsCQ.Name],
     val |-> [Name              |-> wsCQ.Name,
              Cohort            |-> wsCQ.Cohort,
              NamespaceSelector |-> wsCQ.NamespaceSelector,
              Preemption        |-> wsCQ.Preemption,
              ResourceGroups    |-> rgs.val,
              AdmissionChecks   |-> wsCQ.AdmissionChecks,
              FairSharing       |-> wsCQ.FairSharing]]

deriveClusterQueues(wsCQs, flavorPools, pools) ==
    FirstErrorOrAll([c \in DOMAIN wsCQs |->
        deriveClusterQueue(wsCQs[c],
            deriveResourceGroups(wsCQs[c].ResourceGroups, flavorPools, pools))])

\* expandWorker, given the outcomes of its two derivations
expandedCluster(ws, worker, resourceFlavors, clusterQueues) ==
    IF resourceFlavors.err # NoErr THEN [err |-> resourceFlavors.err, val |-> Nil]
    ELSE IF clusterQueues.err # NoErr THEN [err |-> clusterQueues.err, val |-> Nil]
    ELSE [err |-> NoErr,
          val |-> [Name      |-> worker.Name,
                   Role      |-> RoleWorker,
                   NodePools |-> worker.NodePools,
                   Kueue     |-> [Cohorts         |-> <<>>,
                                  ResourceFlavors |-> resourceFlavors.val,
                                  ClusterQueues   |-> clusterQueues.val,
                                  LocalQueues     |-> ws.LocalQueues,
                                  PriorityClasses |-> <<>>]]]

expandWorker(ws, worker, flavorPools) ==
    expandedCluster(ws, worker,
        deriveResourceFlavors(ws.ResourceFlavors, PoolsOf(worker.NodePools)),
        deriveClusterQueues(ws.ClusterQueues, flavorPools, PoolsOf(worker.NodePools)))

\* fmt.Errorf("workerSet %q, worker %q: %w", ws.Name, worker.Name, err)
inWorker(ws, worker, result) ==
    [err |-> IF result.err = NoErr THEN NoErr
             ELSE [result.err EXCEPT !.ws = ws.Name, !.worker = worker.Name],
     val |-> result.val]

\* each cluster put in front of the earlier ones instead of after them
clustersNewestFirst(results) ==
    [err |-> results.err,
     clusters |-> [k \in DOMAIN results.val |-> results.val[Len(results.val) + 1 - k]]]

\* [err, clusters] from the outcomes of the workers in order
expandedClusters(results) == [err |-> results.err, clusters |-> results.val]

\* Returns [err, clusters]: the error of the first worker that fails (and no
\* clusters), or NoErr and one cluster per worker.
ExpandWorkerSets(workerSets) ==
    expandedClusters(FirstErrorOrAll(ConcatAll([i \in DOMAIN workerSets |->
        [j \in DOMAIN workerSets[i].Workers |->
            inWorker(workerSets[i], workerSets[i].Workers[j],
                expandWorker(workerSets[i], workerSets[i].Workers[j],
                             FlavorPoolsOf(workerSets[i].ResourceFlavors)))]])))

-----------------------------------------------------------------------------
(* pkg/config/multikueue.go: DeriveManagementKueueConfig *)

\* the elements of s at the indices idx, in ascending order
RECURSIVE PickIndices(_, _)
PickIndices(s, idx) ==
    IF idx = {} THEN <<>>
    ELSE LET m == MinOf(idx) IN <<s[m]>> \o PickIndices(s, idx \ {m})

\* the zero value of ClusterConfig, which a map lookup of a missing key yields
ZeroClusterConfig == [Name |-> "", Role |-> "", NodePools |-> <<>>, Kueue |-> Nil]

\* the value a panicking call leaves behind (index out of range, MustParse)
Panic == [panic |-> TRUE]

\* workerByName[w.Name] = w over expandedWorkers, then looked up by name
WorkerByName(expandedWorkers, name) ==
    IF \E i \in DOMAIN expandedWorkers : expandedWorkers[i].Name = name
    THEN expandedWorkers[LastIndexNamed(expandedWorkers, NameOf, name)]
    ELSE ZeroClusterConfig

\* workersByWS[ws.Name]: appended to under the WorkerSet's name, for every
\* WorkerSet of that name
WorkersByWS(workerSets, expandedWorkers, wsName) ==
    ConcatAll([i \in DOMAIN workerSets |->
        IF workerSets[i].Name = wsName
        THEN [j \in DOMAIN workerSets[i].Workers |->
                WorkerByName(expandedWorkers, workerSets[i].Workers[j].Name)]
        ELSE <<>>])

\* a seen-map declared inside the loop over the WorkerSets
flavorsSeenPerWorkerSet(workerSets) ==
    ConcatAll([i \in DOMAIN workerSets |->
        LET all == workerSets[i].ResourceFlavors
            kept == PickIndices(all, {a \in DOMAIN all :
                                        \A b \in 1..(a - 1) : all[b].Name # all[a].Name})
        IN  [k \in DOMAIN kept |->
                [Name |-> kept[k].Name, NodeLabels |-> EmptyMap, Tolerations |-> <<>>]]])

\* one seen-map declared before the loop over the WorkerSets
deriveManagementResourceFlavors(workerSets) ==
    LET all == ConcatAll([i \in DOMAIN workerSets |-> workerSets[i].ResourceFlavors])
        first == {i \in DOMAIN all : \A j \in 1..(i - 1) : all[j].Name # all[i].Name}
        kept == PickIndices(all, first)
    IN  [i \in DOMAIN kept |->
            [Name |-> kept[i].Name, NodeLabels |-> EmptyMap, Tolerations |-> <<>>]]

LocalQueueKey(lq) == lq.Namespace \o "/" \o lq.Name

deriveManagementLocalQueues(workerSets) ==
    LET all == ConcatAll([i \in DOMAIN workerSets |-> workerSets[i].LocalQueues])
        first == {i \in DOMAIN all :
                    \A j \in 1..(i - 1) : LocalQueueKey(all[j]) # LocalQueueKey(all[i])}
    IN  PickIndices(all, first)

\* a total that is overwritten by each worker's quota instead of added to
KeepLast(acc, qs) == IF qs = <<>> THEN acc ELSE QuantityAdd(acc, qs[Len(qs)])

RECURSIVE AddAll(_, _)
AddAll(acc, qs) == IF qs = <<>> THEN acc ELSE AddAll(QuantityAdd(acc, Head(qs)), Tail(qs))

\* Returns [panic, val]: the summed resource groups, shaped like the first
\* worker's ClusterQueue of that name.
aggregateWorkerQuotas(cqName, workers) ==
    LET has(i) == /\ workers[i].Kueue # Nil
                  /\ \E j \in DOMAIN workers[i].Kueue.ClusterQueues :
                        workers[i].Kueue.ClusterQueues[j].Name = cqName
        found(i) == LET cqs == workers[i].Kueue.ClusterQueues
                    IN  cqs[FirstIndexNamed(cqs, NameOf, cqName)]
        workerCQs == PickIndices([i \in DOMAIN workers |-> IF has(i) THEN found(i) ELSE Nil],
                                 {i \in DOMAIN workers : has(i)})
        templateCQ == workerCQs[1]
        outOfRange ==
            \E g \in DOMAIN templateCQ.ResourceGroups :
              \E f \in DOMAIN templateCQ.ResourceGroups[g].Flavors :
                \E w \in DOMAIN workerCQs :
                    \/ g \notin DOMAIN workerCQs[w].ResourceGroups
                    \/ f \notin DOMAIN workerCQs[w].ResourceGroups[g].Flavors
                    \/ \E r \in DOMAIN workerCQs[w].ResourceGroups[g].Flavors[f].Resources :
                          \/ ~ParseQuantity(workerCQs[w].ResourceGroups[g].Flavors[f]
                                                .Resources[r].NominalQuota).ok
                          \/ r \notin DOMAIN templateCQ.ResourceGroups[g].Flavors[f].Resources
        quotasAt(g, f, r) ==
            LET withR == {w \in DOMAIN workerCQs :
                            r \in DOMAIN workerCQs[w].ResourceGroups[g].Flavors[f].Resources}
            IN  PickIndices([w \in DOMAIN workerCQs |->
                                IF w \in withR
                                THEN MustParse(workerCQs[w].ResourceGroups[g].Flavors[f]
                                                   .Resources[r].NominalQuota)
                                ELSE ZeroQuantity],
                            withR)
    IN  IF workerCQs = <<>> THEN [panic |-> FALSE, val |-> <<>>]
        ELSE IF outOfRange THEN [panic |-> TRUE, val |-> <<>>]
        ELSE [panic |-> FALSE,
              val |-> [g \in DOMAIN templateCQ.ResourceGroups |->
                [CoveredResources |-> templateCQ.ResourceGroups[g].CoveredResources,
                 Flavors |-> [f \in DOMAIN templateCQ.ResourceGroups[g].Flavors |->
                    LET flavor == templateCQ.ResourceGroups[g].Flavors[f]
                    IN  [Name      |-> flavor.Name,
                         Resources |-> [r \in DOMAIN flavor.Resources |->
                            [Name           |-> flavor.Resources[r].Name,
                             NominalQuota   |-> QuantityString(AddAll(ZeroQuantity,
                                                                      quotasAt(g, f, r))),
                             BorrowingLimit |-> EmptyStr,
                             LendingLimit   |-> EmptyStr]]]]]]]

\* the WorkerSet's check appended after the declared ones
checkAppended(ws, wsCQ, aggregated) ==
    [panic |-> aggregated.panic,
     val   |-> [Name              |-> wsCQ.Name,
                Cohort            |-> wsCQ.Cohort,
                NamespaceSelector |-> wsCQ.NamespaceSelector,
                Preemption        |-> wsCQ.Preemption,
                ResourceGroups    |-> aggregated.val,
                AdmissionChecks   |-> wsCQ.AdmissionChecks \o <<ws.Name>>,
                FairSharing       |-> wsCQ.FairSharing]]

\* the body of the loop over ws.ClusterQueues, given the outcome of
\* aggregateWorkerQuotas
managementClusterQueue(ws, wsCQ, aggregated) ==
    [panic |-> aggregated.panic,
     val   |-> [Name              |-> wsCQ.Name,
                Cohort            |-> wsCQ.Cohort,
                NamespaceSelector |-> wsCQ.NamespaceSelector,
                Preemption        |-> wsCQ.Preemption,
                ResourceGroups    |-> aggregated.val,
                AdmissionChecks   |-> <<ws.Name>> \o wsCQ.AdmissionChecks,
                FairSharing       |-> wsCQ.FairSharing]]

\* [panic, val] from the outcomes of the ClusterQueues in order
managementClusterQueues(results) ==
    [panic |-> \E k \in DOMAIN results : results[k].panic,
     val   |-> [k \in DOMAIN results |-> results[k].val]]

\* Returns [panic, val].
deriveManagementClusterQueues(workerSets, expandedWorkers) ==
    managementClusterQueues(ConcatAll([i \in DOMAIN workerSets |->
        [c \in DOMAIN workerSets[i].ClusterQueues |->
            managementClusterQueue(workerSets[i], workerSets[i].ClusterQueues[c],
                aggregateWorkerQuotas(workerSets[i].ClusterQueues[c].Name,
                    WorkersByWS(workerSets, expandedWorkers, workerSets[i].Name)))]]))

\* the user's objects in place of the derived ones where the user declares any
userObjectsReplace(derivedFlavors, derivedCQs, derivedLQs, managementKueueConfig) ==
    IF derivedCQs.panic THEN Panic
    ELSE IF managementKueueConfig # Nil
    THEN [Cohorts         |-> managementKueueConfig.Cohorts,
          ResourceFlavors |-> IF managementKueueConfig.ResourceFlavors = <<>>
                              THEN derivedFlavors ELSE managementKueueConfig.ResourceFlavors,
          ClusterQueues   |-> IF managementKueueConfig.ClusterQueues = <<>>
                              THEN derivedCQs.val ELSE managementKueueConfig.ClusterQueues,
          LocalQueues     |-> IF managementKueueConfig.LocalQueues = <<>>
                              THEN derivedLQs ELSE managementKueueConfig.LocalQueues,
          PriorityClasses |-> managementKueueConfig.PriorityClasses]
    ELSE [Cohorts         |-> <<>>,
          ResourceFlavors |-> derivedFlavors,
          ClusterQueues   |-> derivedCQs.val,
          LocalQueues     |-> derivedLQs,
          PriorityClasses |-> <<>>]

\* DeriveManagementKueueConfig past its first return, given the three derived
\* lists: a KueueConfig, or Panic
mergedKueueConfig(derivedFlavors, derivedCQs, derivedLQs, managementKueueConfig) ==
    IF derivedCQs.panic THEN Panic
    ELSE IF managementKueueConfig # Nil
    THEN [Cohorts         |-> managementKueueConfig.Cohorts,
          ResourceFlavors |-> derivedFlavors \o managementKueueConfig.ResourceFlavors,
          ClusterQueues   |-> derivedCQs.val \o managementKueueConfig.ClusterQueues,
          LocalQueues     |-> derivedLQs \o managementKueueConfig.LocalQueues,
          PriorityClasses |-> managementKueueConfig.PriorityClasses]
    ELSE [Cohorts         |-> <<>>,
          ResourceFlavors |-> derivedFlavors,
          ClusterQueues   |-> derivedCQs.val,
          LocalQueues     |-> derivedLQs,
          PriorityClasses |-> <<>>]

\* no early return: an empty list of WorkerSets is merged like any other
mergeAlways(workerSets, expandedWorkers, managementKueueConfig) ==
    mergedKueueConfig(deriveManagementResourceFlavors(workerSets),
                      deriveManagementClusterQueues(workerSets, expandedWorkers),
                      deriveManagementLocalQueues(workerSets),
                      managementKueueConfig)

\* The result is a KueueConfig, Nil, or Panic.
DeriveManagementKueueConfig(workerSets, expandedWorkers, managementKueueConfig) ==
    IF Len(workerSets) = 0 THEN managementKueueConfig
    ELSE mergedKueueConfig(deriveManagementResourceFlavors(workerSets),
                           deriveManagementClusterQueues(workerSets, expandedWorkers),
                           deriveManagementLocalQueues(workerSets),
                           managementKueueConfig)

-----------------------------------------------------------------------------
(* pkg/config/validate.go: ValidateTopology *)

APIVersion == "kueue-bench.io/v1alpha1"

KindTopology == "Topology"

\* A validation error, by the parts its message carries: the text, the indices
\* and the names.  Ranging over a Go map visits the keys in an order that is
\* not fixed, so a check returns the SET of errors it may report: empty when
\* the check passes.
VErr(kind, at, names) == [kind |-> kind, at |-> at, names |-> names]

\* fmt.Errorf("<context>: %w", err)
Wrap(errs, at, names) ==
    {[e EXCEPT !.at = at \o @, !.names = names \o @] : e \in errs}

When(cond, err) == IF cond THEN {err} ELSE {}

\* the checks of a function body, or the iterations of a loop, in order: what
\* the first failing one reports
FirstFailing(checks) ==
    LET bad == {i \in DOMAIN checks : checks[i] # {}}
    IN  IF bad = {} THEN {} ELSE checks[MinOf(bad)]

TaintEffects == {"NoSchedule", "PreferNoSchedule", "NoExecute"}

\* a node pool whose count and quantities are not looked at
poolContentsUnchecked(p) == {}

validateNodePoolContents(p) ==
    FirstFailing(<<
        When(p.Count <= 0, VErr("count must be > 0", <<>>, <<>>)),
        When(DOMAIN p.Resources = {}, VErr("at least one resource is required", <<>>, <<>>)),
        {VErr("invalid resource quantity", <<>>, <<resName>>) :
            resName \in {r \in DOMAIN p.Resources : ~ParseQuantity(p.Resources[r]).ok}},
        FirstFailing([k \in DOMAIN p.Taints |->
            When(p.Taints[k].Effect \notin TaintEffects,
                 VErr("invalid taint effect", <<k>>, <<p.Taints[k].Effect>>))])
    >>)

validateNodePool(p, clusterIndex, poolIndex, clusterName) ==
    FirstFailing(<<
        When(p.Name = "", VErr("nodePool: name is required",
                               <<clusterIndex, poolIndex>>, <<clusterName>>)),
        Wrap(validateNodePoolContents(p), <<clusterIndex, poolIndex>>, <<clusterName, p.Name>>)
    >>)

\* validateCohorts, had a parent been looked up among the cohorts declared
\* before the cohort only
parentsDeclaredEarlier(cohorts, clusterIndex, clusterName) ==
    FirstFailing([i \in DOMAIN cohorts |-> FirstFailing(<<
        When(cohorts[i].Name = "",
             VErr("cohort: name is required", <<clusterIndex, i>>, <<clusterName>>)),
        When(\E j \in 1..(i - 1) : cohorts[j].Name = cohorts[i].Name,
             VErr("duplicate cohort name", <<clusterIndex, i>>,
                  <<clusterName, cohorts[i].Name>>)),
        When(/\ cohorts[i].ParentName # ""
             /\ cohorts[i].ParentName \notin {cohorts[j].Name : j \in 1..(i - 1)},
             VErr("unknown parent cohort", <<clusterIndex, i>>,
                  <<clusterName, cohorts[i].Name, cohorts[i].ParentName>>))
    >>)])

validateCohorts(cohorts, clusterIndex, clusterName) ==
    LET names == {cohorts[i].Name : i \in DOMAIN cohorts}
    IN  FirstFailing(<<
            FirstFailing([i \in DOMAIN cohorts |-> FirstFailing(<<
                When(cohorts[i].Name = "",
                     VErr("cohort: name is required", <<clusterIndex, i>>, <<clusterName>>)),
                When(\E j \in 1..(i - 1) : cohorts[j].Name = cohorts[i].Name,
                     VErr("duplicate cohort name", <<clusterIndex, i>>,
                          <<clusterName, cohorts[i].Name>>))
            >>)]),
            FirstFailing([i \in DOMAIN cohorts |->
                When(cohorts[i].ParentName # "" /\ cohorts[i].ParentName \notin names,
                     VErr("unknown parent cohort", <<clusterIndex, i>>,
                          <<clusterName, cohorts[i].Name, cohorts[i].ParentName>>))])
        >>)

validateKueueConfig(k, clusterIndex, clusterName) ==
    LET cohortNames == {k.Cohorts[i].Name : i \in DOMAIN k.Cohorts}
        flavorNames == {k.ResourceFlavors[i].Name : i \in DOMAIN k.ResourceFlavors}
        clusterQueueNames == {k.ClusterQueues[i].Name : i \in DOMAIN k.ClusterQueues}
        flavorCheck(i, j, f) ==
            LET cq == k.ClusterQueues[i]
                fq == cq.ResourceGroups[j].Flavors[f]
            IN  FirstFailing(<<
                    When(fq.Name \notin flavorNames,
                         VErr("unknown resourceFlavor", <<clusterIndex, i, j, f>>,
                              <<clusterName, cq.Name, fq.Name>>)),
                    FirstFailing([l \in DOMAIN fq.Resources |->
                        When(~ParseQuantity(fq.Resources[l].NominalQuota).ok,
                             VErr("invalid nominalQuota", <<clusterIndex, i, j, f, l>>,
                                  <<clusterName, cq.Name>>))])
                >>)
        cqCheck(i) ==
            LET cq == k.ClusterQueues[i]
            IN  FirstFailing(<<
                    When(cq.Name = "",
                         VErr("clusterQueue: name is required", <<clusterIndex, i>>,
                              <<clusterName>>)),
                    When(cq.Cohort # "" /\ cq.Cohort \notin cohortNames,
                         VErr("unknown cohort", <<clusterIndex, i>>,
                              <<clusterName, cq.Name, cq.Cohort>>)),
                    When(Len(cq.ResourceGroups) = 0,
                         VErr("at least one resourceGroup is required", <<clusterIndex, i>>,
                              <<clusterName, cq.Name>>)),
                    FirstFailing([j \in DOMAIN cq.ResourceGroups |->
                        FirstFailing([f \in DOMAIN cq.ResourceGroups[j].Flavors |->
                            flavorCheck(i, j, f)])])
                >>)
        lqCheck(i) ==
            LET lq == k.LocalQueues[i]
            IN  FirstFailing(<<
                    When(lq.Name = "",
                         VErr("localQueue: name is required", <<clusterIndex, i>>,
                              <<clusterName>>)),
                    When(lq.Namespace = "",
                         VErr("localQueue: namespace is required", <<clusterIndex, i>>,
                              <<clusterName, lq.Name>>)),
                    When(lq.ClusterQueue = "",
                         VErr("localQueue: clusterQueue is required", <<clusterIndex, i>>,
                              <<clusterName, lq.Name>>)),
                    When(lq.ClusterQueue \notin clusterQueueNames,
                         VErr("unknown clusterQueue", <<clusterIndex, i>>,
                              <<clusterName, lq.Name, lq.ClusterQueue>>))
                >>)
    IN  FirstFailing(<<
            validateCohorts(k.Cohorts, clusterIndex, clusterName),
            FirstFailing([i \in DOMAIN k.ResourceFlavors |->
                When(k.ResourceFlavors[i].Name = "",
                     VErr("resourceFlavor: name is required", <<clusterIndex>>,
                          <<clusterName>>))]),
            FirstFailing([i \in DOMAIN k.ClusterQueues |-> cqCheck(i)]),
            FirstFailing([i \in DOMAIN k.LocalQueues |-> lqCheck(i)])
        >>)

validateCluster(c, index) ==
    FirstFailing(<<
        When(c.Name = "", VErr("cluster: name is required", <<index>>, <<>>)),
        When(c.Role \notin {RoleStandalone, RoleManagement, RoleWorker},
             VErr("invalid role", <<index>>, <<c.Name, c.Role>>)),
        When(Len(c.NodePools) = 0,
             VErr("at least one nodePool is required", <<index>>, <<c.Name>>)),
        FirstFailing([j \in DOMAIN c.NodePools |->
            validateNodePool(c.NodePools[j], index, j, c.Name)]),
        IF c.Kueue # Nil THEN validateKueueConfig(c.Kueue, index, c.Name) ELSE {}
    >>)

\* workerNames, had the map been made anew for each WorkerSet
workerNamesPerWorkerSet(workerSets, i, j) ==
    {workerSets[i].Workers[b].Name : b \in 1..(j - 1)}

\* the names of the workers the loops have passed before worker j of
\* WorkerSet i (the workerNames map)
EarlierWorkerNames(workerSets, i, j) ==
    UNION {{workerSets[a].Workers[b].Name : b \in DOMAIN workerSets[a].Workers} :
            a \in 1..(i - 1)} \cup
    {workerSets[i].Workers[b].Name : b \in 1..(j - 1)}

\* poolRequiredResources, had only the last covered resource of each resource
\* group been recorded
requiredOfLastCovered(ws) ==
    LET flavorPools == FlavorPoolsOf(ws.ResourceFlavors)
        rgs == ConcatAll([c \in DOMAIN ws.ClusterQueues |-> ws.ClusterQueues[c].ResourceGroups])
        uses == UNION {{<<flavorPools[rgs[g].Flavors[f].Name],
                          rgs[g].CoveredResources[Len(rgs[g].CoveredResources)]>> :
                            f \in {x \in DOMAIN rgs[g].Flavors :
                                    rgs[g].Flavors[x].Name \in DOMAIN flavorPools}} :
                        g \in DOMAIN rgs}
    IN  [poolName \in {u[1] : u \in uses} |-> {u[2] : u \in {v \in uses : v[1] = poolName}}]

\* poolRequiredResources: pool name -> the covered resources of every resource
\* group that has a flavor mapped to that pool.  (The flavor references have
\* been checked by the time the code builds the map.)
PoolRequiredResources(ws) ==
    LET flavorPools == FlavorPoolsOf(ws.ResourceFlavors)
        rgs == ConcatAll([c \in DOMAIN ws.ClusterQueues |-> ws.ClusterQueues[c].ResourceGroups])
        uses == UNION {{<<flavorPools[rgs[g].Flavors[f].Name], rgs[g].CoveredResources[r]>> :
                            f \in {x \in DOMAIN rgs[g].Flavors :
                                    rgs[g].Flavors[x].Name \in DOMAIN flavorPools},
                            r \in DOMAIN rgs[g].CoveredResources} :
                        g \in DOMAIN rgs}
    IN  [poolName \in {u[1] : u \in uses} |-> {u[2] : u \in {v \in uses : v[1] = poolName}}]

validateWorker(ws, i, j, clusterNames, workerNames) ==
    LET worker == ws.Workers[j]
        pools == PoolsOf(worker.NodePools)
        required == PoolRequiredResources(ws)
    IN  FirstFailing(<<
            When(worker.Name = "", VErr("worker: name is required", <<i, j>>, <<ws.Name>>)),
            When(worker.Name \in clusterNames,
                 VErr("worker name conflicts with an existing cluster", <<i, j>>,
                      <<ws.Name, worker.Name>>)),
            When(worker.Name \in workerNames,
                 VErr("duplicate worker name", <<i, j>>, <<ws.Name, worker.Name>>)),
            When(Len(worker.NodePools) = 0,
                 VErr("worker: at least one nodePool is required", <<i, j>>,
                      <<ws.Name, worker.Name>>)),
            FirstFailing([k \in DOMAIN worker.NodePools |-> FirstFailing(<<
                When(worker.NodePools[k].Name = "",
                     VErr("worker nodePool: name is required", <<i, j, k>>,
                          <<ws.Name, worker.Name>>)),
                Wrap(validateNodePoolContents(worker.NodePools[k]), <<i, j, k>>,
                     <<ws.Name, worker.Name, worker.NodePools[k].Name>>)
            >>)]),
            FirstFailing([f \in DOMAIN ws.ResourceFlavors |->
                When(ws.ResourceFlavors[f].NodePoolRef \notin DOMAIN pools,
                     VErr("nodePoolRef not found", <<i, j>>,
                          <<ws.Name, worker.Name, ws.ResourceFlavors[f].NodePoolRef,
                            ws.ResourceFlavors[f].Name>>))]),
            {VErr("covered resource not found in pool resources", <<i, j>>,
                  <<ws.Name, worker.Name, poolName, cr>>) :
                <<poolName, cr>> \in
                    {pc \in UNION {{<<pn, r>> : r \in required[pn]} : pn \in DOMAIN required} :
                        \/ pc[1] \notin DOMAIN pools
                        \/ pc[2] \notin DOMAIN pools[pc[1]].Resources}}
        >>)

validateWorkerSet(workerSets, i, clusterNames) ==
    LET ws == workerSets[i]
        flavorNames == {ws.ResourceFlavors[f].Name : f \in DOMAIN ws.ResourceFlavors}
        cqNames == {ws.ClusterQueues[c].Name : c \in DOMAIN ws.ClusterQueues}
        cqCheck(j) ==
            LET cq == ws.ClusterQueues[j]
            IN  FirstFailing(<<
                    When(cq.Name = "",
                         VErr("workerSet clusterQueue: name is required", <<i, j>>, <<ws.Name>>)),
                    When(Len(cq.ResourceGroups) = 0,
                         VErr("workerSet clusterQueue: at least one resourceGroup is required",
                              <<i, j>>, <<ws.Name, cq.Name>>)),
                    FirstFailing([k \in DOMAIN cq.ResourceGroups |-> FirstFailing(<<
                        When(Len(cq.ResourceGroups[k].CoveredResources) = 0,
                             VErr("at least one coveredResource is required", <<i, j, k>>,
                                  <<ws.Name, cq.Name>>)),
                        FirstFailing([l \in DOMAIN cq.ResourceGroups[k].Flavors |->
                            When(cq.ResourceGroups[k].Flavors[l].Name \notin flavorNames,
                                 VErr("workerSet: unknown resourceFlavor", <<i, j, k, l>>,
                                      <<ws.Name, cq.Name, cq.ResourceGroups[k].Flavors[l].Name>>))])
                    >>)])
                >>)
        lqCheck(j) ==
            LET lq == ws.LocalQueues[j]
            IN  FirstFailing(<<
                    When(lq.Name = "",
                         VErr("workerSet localQueue: name is required", <<i, j>>, <<ws.Name>>)),
                    When(lq.Namespace = "",
                         VErr("workerSet localQueue: namespace is required", <<i, j>>,
                              <<ws.Name, lq.Name>>)),
                    When(lq.ClusterQueue = "",
                         VErr("workerSet localQueue: clusterQueue is required", <<i, j>>,
                              <<ws.Name, lq.Name>>)),
                    When(lq.ClusterQueue \notin cqNames,
                         VErr("workerSet localQueue: unknown clusterQueue", <<i, j>>,
                              <<ws.Name, lq.Name, lq.ClusterQueue>>))
                >>)
    IN  FirstFailing(<<
            When(ws.Name = "", VErr("workerSet: name is required", <<i>>, <<>>)),
            When(\E a \in 1..(i - 1) : workerSets[a].Name = ws.Name,
                 VErr("duplicate workerSet name", <<i>>, <<ws.Name>>)),
            When(Len(ws.ResourceFlavors) = 0,
                 VErr("at least one resourceFlavor is required", <<i>>, <<ws.Name>>)),
            When(Len(ws.ClusterQueues) = 0,
                 VErr("at least one clusterQueue is required", <<i>>, <<ws.Name>>)),
            When(Len(ws.Workers) = 0,
                 VErr("at least one worker is required", <<i>>, <<ws.Name>>)),
            FirstFailing([j \in DOMAIN ws.ResourceFlavors |-> FirstFailing(<<
                When(ws.ResourceFlavors[j].Name = "",
                     VErr("workerSet resourceFlavor: name is required", <<i, j>>, <<ws.Name>>)),
                When(ws.ResourceFlavors[j].NodePoolRef = "",
                     VErr("nodePoolRef is required", <<i, j>>,
                          <<ws.Name, ws.ResourceFlavors[j].Name>>))
            >>)]),
            FirstFailing([j \in DOMAIN ws.ClusterQueues |-> cqCheck(j)]),
            FirstFailing([j \in DOMAIN ws.LocalQueues |-> lqCheck(j)]),
            FirstFailing([j \in DOMAIN ws.Workers |->
                validateWorker(ws, i, j, clusterNames, EarlierWorkerNames(workerSets, i, j))])
        >>)

validateWorkerSets(workerSets, clusterNames) ==
    FirstFailing([i \in DOMAIN workerSets |-> validateWorkerSet(workerSets, i, clusterNames)])

\* the value ValidateTopology returns for an accepted topology
Accepted == VErr("nil", <<>>, <<>>)

\* The set of values ValidateTopology(t) may return.
ValidateTopology(t) ==
    LET clusterNames == {t.Spec.Clusters[i].Name : i \in DOMAIN t.Spec.Clusters}
        errs == FirstFailing(<<
            When(t.APIVersion # APIVersion, VErr("unsupported apiVersion", <<>>, <<t.APIVersion>>)),
            When(t.Kind # KindTopology, VErr("unsupported kind", <<>>, <<t.Kind>>)),
            When(t.Metadata.Name = "", VErr("metadata.name is required", <<>>, <<>>)),
            When(Len(t.Spec.Clusters) = 0 /\ Len(t.Spec.WorkerSets) = 0,
                 VErr("at least one cluster or workerSet is required", <<>>, <<>>)),
            FirstFailing([i \in DOMAIN t.Spec.Clusters |-> validateCluster(t.Spec.Clusters[i], i)]),
            validateWorkerSets(t.Spec.WorkerSets, clusterNames)
        >>)
    IN  IF errs = {} THEN {Accepted} ELSE errs

-----------------------------------------------------------------------------
(* pkg/kueue: the builders of the Kueue objects *)

\* an optional limit: absent for the empty string, must-parsed otherwise
buildLimit(str) == IF str = EmptyStr THEN Nil ELSE MustParse(str)

\* resource.MustParse panics on text that does not parse
MustParsePanics(res) ==
    \/ ~ParseQuantity(res.NominalQuota).ok
    \/ res.BorrowingLimit # EmptyStr /\ ~ParseQuantity(res.BorrowingLimit).ok
    \/ res.LendingLimit # EmptyStr /\ ~ParseQuantity(res.LendingLimit).ok

\* the quotas built, or a panic
buildResources(resources) ==
    IF \E i \in DOMAIN resources : MustParsePanics(resources[i]) THEN Panic
    ELSE [quotas |-> [i \in DOMAIN resources |->
            [Name           |-> resources[i].Name,
             NominalQuota   |-> MustParse(resources[i].NominalQuota),
             BorrowingLimit |-> buildLimit(resources[i].BorrowingLimit),
             LendingLimit   |-> buildLimit(resources[i].LendingLimit)]]]

-----------------------------------------------------------------------------
(* The topologies the functions are applied to *)

\* node counts of the pools whose count varies
MaxCount == 3

\* workers per WorkerSet, where the list of workers varies
MaxWorkers == 2

Taint(key, value, effect) == [Key |-> key, Value |-> value, Effect |-> effect]

NodePool(name, count, resources, labels, taints) ==
    [Name |-> name, Count |-> count, Resources |-> resources, Labels |-> labels,
     Taints |-> taints]

GpuPoolA(c) ==
    NodePool("gpu-pool", c,
             ("gpu" :> Q(8, "")) @@ ("cpu" :> Q(500, "m")) @@ ("memory" :> Q(128, "Ki")),
             ("cloud" :> "aws"),
             <<Taint("gpu", "true", "NoSchedule")>>)

GpuPoolB ==
    NodePool("gpu-pool", 2,
             ("gpu" :> Q(4, "")) @@ ("cpu" :> Q(1500, "m")) @@ ("memory" :> Q(64, "Ki")),
             ("cloud" :> "gcp") @@ ("zone" :> "b"),
             <<Taint("gpu", "true", "PreferNoSchedule"), Taint("spot", "", "NoExecute")>>)

CpuPool ==
    NodePool("cpu-pool", 2,
             ("cpu" :> Q(1000, "m")) @@ ("memory" :> Q(256, "Ki")),
             EmptyMap, <<>>)

\* gpu-pool without the gpu resource
GpuPoolNoGpu ==
    NodePool("gpu-pool", 1, ("cpu" :> Q(2, "")) @@ ("memory" :> Q(1, "Ki")), EmptyMap, <<>>)

\* two quantities that do not parse
GpuPoolBadQuantity ==
    NodePool("gpu-pool", 1,
             ("gpu" :> Q(0, "x")) @@ ("cpu" :> Q(0, "x")) @@ ("memory" :> Q(1, "Ki")),
             EmptyMap, <<>>)

GpuPoolZeroCount ==
    NodePool("gpu-pool", 0,
             ("gpu" :> Q(8, "")) @@ ("cpu" :> Q(1, "")) @@ ("memory" :> Q(1, "Ki")),
             EmptyMap, <<Taint("gpu", "true", "Never")>>)

ValidPoolLists == {<<GpuPoolA(c), CpuPool>> : c \in 1..MaxCount} \cup {<<GpuPoolB, CpuPool>>}

OtherPoolLists ==
    {<<CpuPool>>,
     <<GpuPoolNoGpu, CpuPool>>,
     <<GpuPoolBadQuantity, CpuPool>>,
     <<GpuPoolZeroCount, CpuPool>>,
     <<GpuPoolA(1), CpuPool, GpuPoolB>>}

Worker(name, nodePools) == [Name |-> name, NodePools |-> nodePools]

\* the name of the k-th worker of a list
WorkerNameAt(k) ==
    CASE k = 1 -> "worker-1" [] k = 2 -> "worker-2" [] k = 3 -> "worker-3" [] OTHER -> "worker-n"

\* the k-th worker of a list: the first has any list of pools; a later one has
\* pools the templates can use, a list without the gpu pool or one with
\* unparsable quantities, or it repeats the name of the first
WorkersAt(k) ==
    IF k = 1
    THEN {Worker(WorkerNameAt(1), p) : p \in ValidPoolLists \cup OtherPoolLists}
    ELSE {Worker(WorkerNameAt(k), p) :
            p \in ValidPoolLists \cup {<<CpuPool>>, <<GpuPoolBadQuantity, CpuPool>>}}
         \cup {Worker(WorkerNameAt(1), <<GpuPoolB, CpuPool>>)}

RECURSIVE WorkerListsOfLen(_)
WorkerListsOfLen(n) ==
    IF n = 0 THEN {<<>>}
    ELSE {Append(l, w) : l \in WorkerListsOfLen(n - 1), w \in WorkersAt(n)}

WorkerLists == UNION {WorkerListsOfLen(n) : n \in 1..MaxWorkers}

\* the worker lists of the topologies with two WorkerSets
FirstSetWorkers ==
    {<<Worker("worker-1", <<GpuPoolA(1), CpuPool>>)>>,
     <<Worker("worker-1", <<GpuPoolA(2), CpuPool>>), Worker("worker-2", <<GpuPoolB, CpuPool>>)>>}

SecondSetWorkers ==
    {<<Worker(n, <<GpuPoolB, CpuPool>>)>> : n \in {"worker-3", "worker-1"}} \cup
    {<<Worker(n, <<GpuPoolA(1), CpuPool>>), Worker("worker-4", <<GpuPoolA(2), CpuPool>>)>> :
        n \in {"worker-3", "worker-1"}}

FlavorDef(name, ref) == [Name |-> name, NodePoolRef |-> ref]

FlavorRef(name) == [Name |-> name]

WSResourceGroup(covered, flavors) == [CoveredResources |-> covered, Flavors |-> flavors]

WSClusterQueue(name, cohort, checks, rgs) ==
    [Name |-> name, Cohort |-> cohort, NamespaceSelector |-> "", Preemption |-> "",
     ResourceGroups |-> rgs, AdmissionChecks |-> checks, FairSharing |-> 0]

LocalQueue(ns, name, cq) == [Name |-> name, Namespace |-> ns, ClusterQueue |-> cq]

Template(flavors, cqs, lqs) ==
    [ResourceFlavors |-> flavors, ClusterQueues |-> cqs, LocalQueues |-> lqs]

\* one flavor, one queue, one resource group
TemplateSimple ==
    Template(<<FlavorDef("gpu-flavor", "gpu-pool")>>,
             <<WSClusterQueue("team-cq", "", <<>>,
                  <<WSResourceGroup(<<"gpu", "cpu">>, <<FlavorRef("gpu-flavor")>>)>>)>>,
             <<LocalQueue("team-a", "team-lq", "team-cq")>>)

\* two flavors, two queues, two resource groups, declared admission checks and
\* a LocalQueue declared twice
TemplateFull ==
    Template(<<FlavorDef("gpu-flavor", "gpu-pool"), FlavorDef("cpu-flavor", "cpu-pool")>>,
             <<[WSClusterQueue("team-cq", "platform", <<"extra-check", "audit">>,
                  <<WSResourceGroup(<<"gpu">>, <<FlavorRef("gpu-flavor")>>),
                    WSResourceGroup(<<"cpu", "memory">>,
                                    <<FlavorRef("cpu-flavor"), FlavorRef("gpu-flavor")>>)>>)
                  EXCEPT !.NamespaceSelector = "team=a", !.Preemption = "LowerPriority",
                         !.FairSharing = 2],
               WSClusterQueue("batch-cq", "", <<>>,
                  <<WSResourceGroup(<<"memory">>, <<FlavorRef("cpu-flavor")>>)>>)>>,
             <<LocalQueue("team-a", "team-lq", "team-cq"),
               LocalQueue("team-b", "team-lq", "batch-cq"),
               LocalQueue("team-a", "team-lq", "batch-cq")>>)

\* a flavor name declared twice, for two pools
TemplateRepeatedFlavor ==
    Template(<<FlavorDef("gpu-flavor", "gpu-pool"), FlavorDef("cpu-flavor", "cpu-pool"),
               FlavorDef("gpu-flavor", "cpu-pool")>>,
             <<WSClusterQueue("batch-cq", "", <<"audit">>,
                  <<WSResourceGroup(<<"cpu">>, <<FlavorRef("gpu-flavor")>>)>>)>>,
             <<LocalQueue("team-b", "batch-lq", "batch-cq")>>)

\* a queue that refers to a flavor the WorkerSet does not declare, and a
\* flavor mapped to a pool no worker has
TemplateDangling ==
    Template(<<FlavorDef("gpu-flavor", "gpu-pool")>>,
             <<WSClusterQueue("team-cq", "", <<>>,
                  <<WSResourceGroup(<<"gpu">>, <<FlavorRef("gpu-flavor"), FlavorRef("ghost")>>)>>)>>,
             <<>>)

TemplateMissingPool ==
    Template(<<FlavorDef("gpu-flavor", "gpu-pool"), FlavorDef("tpu-flavor", "tpu-pool")>>,
             <<WSClusterQueue("team-cq", "", <<>>,
                  <<WSResourceGroup(<<"gpu">>, <<FlavorRef("gpu-flavor")>>)>>)>>,
             <<>>)

\* a queue name declared twice, with different resource groups
TemplateRepeatedQueue ==
    Template(<<FlavorDef("gpu-flavor", "gpu-pool")>>,
             <<WSClusterQueue("team-cq", "", <<>>,
                  <<WSResourceGroup(<<"gpu">>, <<FlavorRef("gpu-flavor")>>)>>),
               WSClusterQueue("team-cq", "platform", <<"audit">>,
                  <<WSResourceGroup(<<"cpu", "memory">>, <<FlavorRef("gpu-flavor")>>)>>)>>,
             <<LocalQueue("team-a", "team-lq", "team-cq")>>)

Templates ==
    {TemplateSimple, TemplateFull, TemplateRepeatedFlavor, TemplateRepeatedQueue,
     TemplateDangling, TemplateMissingPool}

PairTemplates == {TemplateSimple, TemplateFull, TemplateRepeatedFlavor}

WorkerSet(name, template, workers) ==
    [Name            |-> name,
     ResourceFlavors |-> template.ResourceFlavors,
     ClusterQueues   |-> template.ClusterQueues,
     LocalQueues     |-> template.LocalQueues,
     Workers         |-> workers]

Cohort(name, parent) == [Name |-> name, ParentName |-> parent]

ResourceFlavor(name, labels) == [Name |-> name, NodeLabels |-> labels, Tolerations |-> <<>>]

Resource(name, nominal) ==
    [Name |-> name, NominalQuota |-> nominal, BorrowingLimit |-> EmptyStr,
     LendingLimit |-> EmptyStr]

ClusterQueue(name, cohort, flavor, resources) ==
    [Name |-> name, Cohort |-> cohort, NamespaceSelector |-> "", Preemption |-> "",
     ResourceGroups |-> <<[CoveredResources |-> [i \in DOMAIN resources |-> resources[i].Name],
                           Flavors |-> <<[Name |-> flavor, Resources |-> resources]>>]>>,
     AdmissionChecks |-> <<>>, FairSharing |-> 0]

KueueConfig(cohorts, flavors, cqs, lqs, pcs) ==
    [Cohorts |-> cohorts, ResourceFlavors |-> flavors, ClusterQueues |-> cqs,
     LocalQueues |-> lqs, PriorityClasses |-> pcs]

\* cohorts and priority classes only
UserConfigCohorts ==
    KueueConfig(<<Cohort("platform", "root"), Cohort("root", "")>>, <<>>, <<>>, <<>>,
                <<[Name |-> "high", Value |-> 100]>>)

\* a flavor, a queue and LocalQueues of the user's own, among them objects
\* named like those the templates declare
UserConfigOwnQueues ==
    KueueConfig(<<Cohort("platform", "")>>,
                <<ResourceFlavor("user-flavor", ("tier" :> "user")),
                  ResourceFlavor("gpu-flavor", ("tier" :> "user"))>>,
                <<ClusterQueue("user-cq", "platform", "user-flavor", <<Resource("cpu", Q(10, ""))>>),
                  ClusterQueue("team-cq", "", "gpu-flavor", <<Resource("gpu", Q(1, ""))>>)>>,
                <<LocalQueue("user-ns", "user-lq", "user-cq"),
                  LocalQueue("team-a", "team-lq", "team-cq")>>,
                <<>>)

\* a LocalQueue on a queue that only a WorkerSet declares
UserConfigDerivedRef ==
    KueueConfig(<<Cohort("platform", "")>>, <<>>, <<>>,
                <<LocalQueue("mgmt-ns", "mgmt-lq", "team-cq")>>, <<>>)

\* a queue name declared twice, with different quotas
UserConfigRepeatedQueue ==
    KueueConfig(<<>>, <<ResourceFlavor("user-flavor", EmptyMap)>>,
                <<ClusterQueue("user-cq", "", "user-flavor", <<Resource("cpu", Q(10, ""))>>),
                  ClusterQueue("user-cq", "", "user-flavor", <<Resource("cpu", Q(20, ""))>>)>>,
                <<LocalQueue("user-ns", "user-lq", "user-cq")>>, <<>>)

\* a borrowing limit that does not parse, beside a nominal quota that does
UserConfigBadLimit ==
    KueueConfig(<<>>, <<ResourceFlavor("user-flavor", EmptyMap)>>,
                <<ClusterQueue("user-cq", "", "user-flavor",
                     <<[Resource("cpu", Q(10, "")) EXCEPT !.LendingLimit = Q(5, "")],
                       [Resource("memory", Q(1, "Mi")) EXCEPT !.BorrowingLimit = Q(0, "x")]>>)>>,
                <<LocalQueue("user-ns", "user-lq", "user-cq")>>, <<>>)

\* a nominal quota that does not parse
UserConfigBadQuota ==
    KueueConfig(<<>>, <<ResourceFlavor("user-flavor", EmptyMap)>>,
                <<ClusterQueue("user-cq", "", "user-flavor",
                     <<Resource("cpu", Q(10, "")), Resource("memory", Q(0, "x"))>>)>>,
                <<>>, <<>>)

\* a parent that no cohort of the list is named
UserConfigUnknownParent ==
    KueueConfig(<<Cohort("root", ""), Cohort("platform", "ghost")>>, <<>>, <<>>, <<>>, <<>>)

\* a cohort name declared twice
UserConfigRepeatedCohort ==
    KueueConfig(<<Cohort("platform", "root"), Cohort("root", ""), Cohort("platform", "")>>,
                <<>>, <<>>, <<>>, <<>>)

\* a cohort without a name
UserConfigUnnamedCohort ==
    KueueConfig(<<Cohort("root", ""), Cohort("", "root")>>, <<>>, <<>>, <<>>, <<>>)

UserConfigs == {Nil, UserConfigCohorts, UserConfigOwnQueues, UserConfigDerivedRef}

ClusterConfig(name, role, nodePools, kueue) ==
    [Name |-> name, Role |-> role, NodePools |-> nodePools, Kueue |-> kueue]

Management(name, kueue) == ClusterConfig(name, RoleManagement, <<CpuPool>>, kueue)

Standalone(name) == ClusterConfig(name, RoleStandalone, <<CpuPool>>, UserConfigOwnQueues)

\* spec.clusters of the topologies that have WorkerSets
ClusterLists ==
    {<<Management("mgmt", k)>> : k \in UserConfigs} \cup
    {<<>>,
     <<Standalone("solo")>>,
     <<Standalone("worker-1"), Management("mgmt", UserConfigCohorts)>>,
     <<Management("mgmt", UserConfigOwnQueues), Management("mgmt-2", Nil)>>,
     <<Management("mgmt", Nil), Standalone("solo"), Management("mgmt", UserConfigCohorts)>>}

\* spec.clusters of the topologies whose list of workers varies
FewClusterLists ==
    {<<Management("mgmt", Nil)>>, <<Management("mgmt", UserConfigOwnQueues)>>}

\* spec.clusters of the topologies without WorkerSets
LoneClusterLists ==
    ClusterLists \cup
    {<<ClusterConfig("solo", "primary", <<CpuPool>>, Nil)>>,
     <<ClusterConfig("", RoleStandalone, <<CpuPool>>, Nil)>>,
     <<ClusterConfig("solo", RoleStandalone, <<>>, Nil)>>,
     <<ClusterConfig("solo", RoleStandalone, <<GpuPoolBadQuantity>>, Nil)>>,
     <<ClusterConfig("solo", RoleStandalone, <<GpuPoolZeroCount>>, Nil)>>,
     <<ClusterConfig("solo", RoleWorker, <<CpuPool>>, UserConfigDerivedRef)>>,
     <<ClusterConfig("solo", RoleStandalone, <<CpuPool>>, UserConfigRepeatedQueue)>>,
     <<ClusterConfig("solo", RoleStandalone, <<CpuPool>>, UserConfigBadLimit)>>,
     <<ClusterConfig("solo", RoleStandalone, <<CpuPool>>, UserConfigBadQuota)>>,
     <<ClusterConfig("solo", RoleStandalone, <<CpuPool>>, UserConfigUnknownParent)>>,
     <<Standalone("solo"), ClusterConfig("duo", RoleStandalone, <<CpuPool>>, UserConfigRepeatedCohort)>>,
     <<ClusterConfig("solo", RoleStandalone, <<CpuPool>>, UserConfigUnnamedCohort)>>}

Topology(apiVersion, kind, name, clusters, workerSets) ==
    [APIVersion |-> apiVersion, Kind |-> kind, Metadata |-> [Name |-> name],
     Spec |-> [Clusters |-> clusters, WorkerSets |-> workerSets]]

\* one WorkerSet, any template, any list of workers
SingleSetTopologies ==
    {Topology(APIVersion, KindTopology, "bench", c, <<WorkerSet("gpu-ws", t, w)>>) :
        c \in FewClusterLists, t \in Templates, w \in WorkerLists}

\* two WorkerSets, of one name or of two
PairTopologies ==
    {Topology(APIVersion, KindTopology, "bench", c,
              <<WorkerSet("gpu-ws", t[1], w[1]), WorkerSet(n, t[2], w[2])>>) :
        c \in ClusterLists, n \in {"cpu-ws", "gpu-ws"},
        t \in PairTemplates \X PairTemplates, w \in FirstSetWorkers \X SecondSetWorkers}

\* no WorkerSet
LoneTopologies ==
    {Topology(a[1], a[2], a[3], c, <<>>) :
        c \in LoneClusterLists,
        a \in {<<APIVersion, KindTopology, "bench">>, <<"v1", KindTopology, "bench">>,
               <<APIVersion, "Cluster", "bench">>, <<APIVersion, KindTopology, "">>}}

Topologies == SingleSetTopologies \cup PairTopologies \cup LoneTopologies

-----------------------------------------------------------------------------
(* The functions applied *)

Unset == [unset |-> TRUE]

\* topology.Create: the user-authored config is that of the last cluster of
\* spec.clusters with role management, nil when there is none
ManagementKueueConfig(t) ==
    LET mgmt == {i \in DOMAIN t.Spec.Clusters : t.Spec.Clusters[i].Role = RoleManagement}
    IN  IF mgmt = {} THEN Nil ELSE t.Spec.Clusters[MaxOf(mgmt)].Kueue

\* expandedWorkers as the tests of DeriveManagementKueueConfig write them: one
\* worker and its ClusterQueue, no flavors
GivenExpandedWorkers ==
    {<<>>,
     <<ClusterConfig("worker-1", RoleWorker, <<>>,
         KueueConfig(<<>>, <<>>,
             <<ClusterQueue("team-cq", "", "gpu-flavor", <<Resource("gpu", Q(800, ""))>>)>>,
             <<>>, <<>>))>>}

\* no label map is held by reference, nothing is being provisioned
NoHeap == [a \in {} |-> EmptyMap]

\* a cluster without Kueue objects
NoObjects == [key \in {} |-> Nil]

NotProvisioning ==
    kueueConfig = Unset /\ calls = <<>> /\ returned = Unset /\ clusterObjects = NoObjects

\* the host before anything ran: no kind cluster, no topology directory
EmptyHost == [clusters |-> {}, dir |-> FALSE, saved |-> FALSE]

NoMetadata == [name \in {} |-> ""]

\* a position: a place in the code and, within the loops over the clusters, the
\* number of clusters the loops have gone through
At(where, n) == [at |-> where, n |-> n]

NotCreating ==
    /\ position = At("idle", 0)
    /\ createdClusters = <<>>
    /\ metadata = NoMetadata
    /\ host = EmptyHost
    /\ trace = <<>>
    /\ createErr = Unset

Init ==
    /\ topo \in Topologies
    /\ validated = Unset
    /\ expanded = Unset
    /\ derived = Unset
    /\ heap = NoHeap
    /\ NotProvisioning
    /\ NotCreating

Validate ==
    /\ validated = Unset
    /\ \E outcome \in ValidateTopology(topo) : validated' = outcome
    /\ UNCHANGED <<topo, expanded, derived, heap, provisionVars, createVars>>

Expand ==
    /\ expanded = Unset
    /\ expanded' = ExpandWorkerSets(topo.Spec.WorkerSets)
    /\ UNCHANGED <<topo, validated, derived, heap, provisionVars, createVars>>

\* DeriveManagementKueueConfig on the output of ExpandWorkerSets.  topology.Create
\* makes the call with the Kueue config of the management cluster; the function
\* itself takes nil for a config that is not there, as its tests do, and that is
\* what it is given here when spec.clusters has no management cluster.
Derive ==
    /\ derived = Unset
    /\ expanded # Unset
    /\ expanded.err = NoErr
    /\ derived' = [source  |-> "ExpandWorkerSets",
                   workers |-> expanded.clusters,
                   cfg     |-> ManagementKueueConfig(topo),
                   result  |-> DeriveManagementKueueConfig(topo.Spec.WorkerSets,
                                   expanded.clusters, ManagementKueueConfig(topo))]
    /\ UNCHANGED <<topo, validated, expanded, heap, provisionVars, createVars>>

\* DeriveManagementKueueConfig on expandedWorkers written by hand
DeriveGiven ==
    /\ derived = Unset
    /\ \E given \in GivenExpandedWorkers :
          derived' = [source  |-> "given",
                      workers |-> given,
                      cfg     |-> ManagementKueueConfig(topo),
                      result  |-> DeriveManagementKueueConfig(topo.Spec.WorkerSets,
                                      given, ManagementKueueConfig(topo))]
    /\ UNCHANGED <<topo, validated, expanded, heap, provisionVars, createVars>>

Next == Validate \/ Expand \/ Derive \/ DeriveGiven

Spec == Init /\ [][Next]_vars

-----------------------------------------------------------------------------
(* Label maps held by reference.  A Go map value is a reference: assigning *)
(* pool.Labels to another field makes both fields name one map.            *)

Ref(address) == [ref |-> address]

\* the pool with its Labels held by reference: nil for a pool without labels
RefPool(pool, address) ==
    [pool EXCEPT !.Labels = IF pool.Labels = EmptyMap THEN Nil ELSE Ref(address)]

\* the topology with the Labels of every Worker's pools held by reference, the
\* map of pool k of Worker j of WorkerSet i at address <<i, j, k>>
WithLabelRefs(t) ==
    [t EXCEPT !.Spec.WorkerSets =
        [i \in DOMAIN @ |-> [@[i] EXCEPT !.Workers =
            [j \in DOMAIN @ |-> [@[j] EXCEPT !.NodePools =
                [k \in DOMAIN @ |-> RefPool(@[k], <<i, j, k>>)]]]]]]

\* the addresses of the label maps of a topology's Workers
LabelAddresses(workerSets) ==
    UNION {UNION {{<<i, j, k>> : k \in {x \in DOMAIN workerSets[i].Workers[j].NodePools :
                        workerSets[i].Workers[j].NodePools[x].Labels # EmptyMap}} :
                    j \in DOMAIN workerSets[i].Workers} :
            i \in DOMAIN workerSets}

LabelHeap(workerSets) ==
    [a \in LabelAddresses(workerSets) |->
        workerSets[a[1]].Workers[a[2]].NodePools[a[3]].Labels]

\* topologies that pass validation: one WorkerSet, one Worker or two
SharingTopologies ==
    {Topology(APIVersion, KindTopology, "bench", <<Management("mgmt", Nil)>>,
              <<WorkerSet("gpu-ws", t, w)>>) :
        t \in PairTemplates, w \in FirstSetWorkers}

LabelKeys == {"cloud", "tier"}

LabelValues == {"edge", "onprem"}

SharingInit ==
    /\ \E t \in SharingTopologies :
          /\ topo = WithLabelRefs(t)
          /\ heap = LabelHeap(t.Spec.WorkerSets)
    /\ validated = Unset
    /\ expanded = Unset
    /\ derived = Unset
    /\ NotProvisioning
    /\ NotCreating

\* m[key] = value
MapAssign(m, key, value) ==
    [k \in DOMAIN m \cup {key} |-> IF k = key THEN value ELSE m[k]]

\* the caller of ExpandWorkerSets sets a label of a flavor of a cluster it was
\* returned: flavor.NodeLabels[key] = value, on a map that is not nil
SetNodeLabel ==
    /\ expanded # Unset
    /\ expanded.err = NoErr
    /\ \E c \in DOMAIN expanded.clusters :
       \E f \in DOMAIN expanded.clusters[c].Kueue.ResourceFlavors :
       \E key \in LabelKeys : \E value \in LabelValues :
          /\ expanded.clusters[c].Kueue.ResourceFlavors[f].NodeLabels # Nil
          /\ heap' = [heap EXCEPT
                ![expanded.clusters[c].Kueue.ResourceFlavors[f].NodeLabels.ref] =
                    MapAssign(@, key, value)]
    /\ UNCHANGED <<topo, validated, expanded, derived, provisionVars, createVars>>

SharingNext == Expand \/ SetNodeLabel

SharingSpec == SharingInit /\ [][SharingNext]_vars

-----------------------------------------------------------------------------
(* pkg/kueue/provisioner.go: ProvisionKueueObjects.  Each call of a Create  *)
(* method of the client is a step; the cluster answers it with success or   *)
(* with an error.                                                           *)

\* how a run of ProvisionKueueObjects ended: "nil", "error" (the error of the
\* failed Create call) or "panic"
Returned(how) == [how |-> how]

\* buildResourceGroups, buildFlavors: the quotas of every flavor entry
BuildClusterQueue(cq) ==
    IF \E g \in DOMAIN cq.ResourceGroups : \E f \in DOMAIN cq.ResourceGroups[g].Flavors :
          buildResources(cq.ResourceGroups[g].Flavors[f].Resources) = Panic
    THEN Panic
    ELSE [Name   |-> cq.Name,
          Cohort |-> cq.Cohort,
          ResourceGroups |-> [g \in DOMAIN cq.ResourceGroups |->
              [CoveredResources |-> cq.ResourceGroups[g].CoveredResources,
               Flavors |-> [f \in DOMAIN cq.ResourceGroups[g].Flavors |->
                   [Name      |-> cq.ResourceGroups[g].Flavors[f].Name,
                    Resources |-> buildResources(
                                    cq.ResourceGroups[g].Flavors[f].Resources).quotas]]]]]

\* the namespace of a LocalQueue: "default" for the empty string
NamespaceOf(lq) == IF lq.Namespace = "" THEN "default" ELSE lq.Namespace

BuildLocalQueue(lq) ==
    [Name |-> lq.Name, Namespace |-> NamespaceOf(lq), ClusterQueue |-> lq.ClusterQueue]

\* the keys of namespaceMap; the slice returned lists them in no fixed order
getUniqueNamespaces(localQueues) ==
    {NamespaceOf(localQueues[i]) : i \in DOMAIN localQueues} \ {"default"}

\* the kinds the steps of ProvisionKueueObjects create, second before first
localQueuesBeforeNamespaces ==
    <<"Cohort", "ResourceFlavor", "ClusterQueue", "WorkloadPriorityClass", "LocalQueue",
      "Namespace">>

\* the kinds the steps of ProvisionKueueObjects create, in the order of the steps
ProvisionOrder ==
    <<"Cohort", "ResourceFlavor", "ClusterQueue", "WorkloadPriorityClass", "Namespace",
      "LocalQueue">>

\* how many objects the loop of a step goes through
LoopLength(kind) ==
    CASE kind = "Cohort"                -> Len(kueueConfig.Cohorts)
      [] kind = "ResourceFlavor"        -> Len(kueueConfig.ResourceFlavors)
      [] kind = "ClusterQueue"          -> Len(kueueConfig.ClusterQueues)
      [] kind = "WorkloadPriorityClass" -> Len(kueueConfig.PriorityClasses)
      [] kind = "Namespace"   -> Cardinality(getUniqueNamespaces(kueueConfig.LocalQueues))
      [] kind = "LocalQueue"            -> Len(kueueConfig.LocalQueues)

\* how many iterations of the loop of a step have completed
Made(kind) == Cardinality({i \in DOMAIN calls : calls[i].kind = kind /\ calls[i].ok})

\* ProvisionKueueObjects is in the loop of the step for that kind: the loops of
\* the steps before it have run to their end and its own has not
InLoop(kind) ==
    /\ kueueConfig # Unset
    /\ kueueConfig # Nil
    /\ returned = Unset
    /\ LET at == CHOOSE k \in DOMAIN ProvisionOrder : ProvisionOrder[k] = kind
       IN  \A k \in 1..(at - 1) : Made(ProvisionOrder[k]) = LoopLength(ProvisionOrder[k])
    /\ Made(kind) < LoopLength(kind)

\* the key of an object on the cluster
ObjectKey(kind, namespace, name) == [kind |-> kind, namespace |-> namespace, name |-> name]

\* client.Create...: Create and, for an object that already exists, Update with
\* the object given; CreateNamespace leaves a namespace that exists as it is
CreateOrUpdate(store, kind, namespace, name, object) ==
    IF kind = "Namespace" /\ ObjectKey(kind, namespace, name) \in DOMAIN store
    THEN store
    ELSE MapAssign(store, ObjectKey(kind, namespace, name), object)

\* if err := client.Create...(ctx, object); err != nil { return err }
CreateCall(kind, namespace, name, object) ==
    /\ \E ok \in BOOLEAN :
          /\ calls' = Append(calls, [kind |-> kind, namespace |-> namespace,
                                     name |-> name, ok |-> ok])
          /\ returned' = IF ok THEN returned ELSE Returned("error")
          /\ clusterObjects' =
                IF ok THEN CreateOrUpdate(clusterObjects, kind, namespace, name, object)
                      ELSE clusterObjects
    /\ UNCHANGED <<topo, validated, expanded, derived, heap, kueueConfig, createVars>>

CreateCohort ==
    /\ InLoop("Cohort")
    /\ CreateCall("Cohort", "", kueueConfig.Cohorts[Made("Cohort") + 1].Name,
                  kueueConfig.Cohorts[Made("Cohort") + 1])

CreateResourceFlavor ==
    /\ InLoop("ResourceFlavor")
    /\ CreateCall("ResourceFlavor", "",
                  kueueConfig.ResourceFlavors[Made("ResourceFlavor") + 1].Name,
                  kueueConfig.ResourceFlavors[Made("ResourceFlavor") + 1])

\* BuildClusterQueue must-parses the quotas and limits: a panic ends the run
CreateClusterQueue ==
    /\ InLoop("ClusterQueue")
    /\ IF BuildClusterQueue(kueueConfig.ClusterQueues[Made("ClusterQueue") + 1]) = Panic
       THEN /\ returned' = Returned("panic")
            /\ UNCHANGED <<topo, validated, expanded, derived, heap, kueueConfig, calls,
                           clusterObjects, createVars>>
       ELSE CreateCall("ClusterQueue", "",
                kueueConfig.ClusterQueues[Made("ClusterQueue") + 1].Name,
                BuildClusterQueue(kueueConfig.ClusterQueues[Made("ClusterQueue") + 1]))

CreateWorkloadPriorityClass ==
    /\ InLoop("WorkloadPriorityClass")
    /\ CreateCall("WorkloadPriorityClass", "",
                  kueueConfig.PriorityClasses[Made("WorkloadPriorityClass") + 1].Name,
                  kueueConfig.PriorityClasses[Made("WorkloadPriorityClass") + 1])

\* the next namespace of the slice getUniqueNamespaces returned: any of those
\* not yet passed
CreateNamespace ==
    /\ InLoop("Namespace")
    /\ \E ns \in getUniqueNamespaces(kueueConfig.LocalQueues) :
          /\ \A i \in DOMAIN calls : calls[i].kind = "Namespace" => calls[i].name # ns
          /\ CreateCall("Namespace", "", ns, [Name |-> ns])

CreateLocalQueue ==
    /\ InLoop("LocalQueue")
    /\ CreateCall("LocalQueue",
                  BuildLocalQueue(kueueConfig.LocalQueues[Made("LocalQueue") + 1]).Namespace,
                  BuildLocalQueue(kueueConfig.LocalQueues[Made("LocalQueue") + 1]).Name,
                  BuildLocalQueue(kueueConfig.LocalQueues[Made("LocalQueue") + 1]))

\* return nil: for a nil config at once, otherwise after the last loop
ProvisionReturn ==
    /\ kueueConfig # Unset
    /\ returned = Unset
    /\ \/ kueueConfig = Nil
       \/ /\ kueueConfig # Nil
          /\ \A k \in DOMAIN ProvisionOrder :
                Made(ProvisionOrder[k]) = LoopLength(ProvisionOrder[k])
    /\ returned' = Returned("nil")
    /\ UNCHANGED <<topo, validated, expanded, derived, heap, kueueConfig, calls,
                           clusterObjects, createVars>>

WorkloadPriorityClass(name, value) == [Name |-> name, Value |-> value]

\* objects of every kind; LocalQueues in two namespaces of their own, in
\* "default" and in no namespace
ProvisionConfigFull ==
    KueueConfig(<<Cohort("platform", "root"), Cohort("root", "")>>,
                <<ResourceFlavor("user-flavor", EmptyMap)>>,
                <<ClusterQueue("user-cq", "platform", "user-flavor",
                     <<[Resource("cpu", Q(10, "")) EXCEPT !.BorrowingLimit = Q(2, "")]>>)>>,
                <<LocalQueue("team-a", "lq-1", "user-cq"),
                  LocalQueue("", "lq-2", "user-cq"),
                  LocalQueue("team-b", "lq-3", "user-cq"),
                  LocalQueue("default", "lq-4", "user-cq"),
                  LocalQueue("team-a", "lq-5", "user-cq")>>,
                <<WorkloadPriorityClass("high", 100)>>)

\* the config topology.Create derives for the management cluster of one
\* WorkerSet with two workers
ProvisionConfigDerived ==
    DeriveManagementKueueConfig(
        <<WorkerSet("gpu-ws", TemplateFull,
                    <<Worker("worker-1", <<GpuPoolA(2), CpuPool>>),
                      Worker("worker-2", <<GpuPoolB, CpuPool>>)>>)>>,
        ExpandWorkerSets(
            <<WorkerSet("gpu-ws", TemplateFull,
                        <<Worker("worker-1", <<GpuPoolA(2), CpuPool>>),
                          Worker("worker-2", <<GpuPoolB, CpuPool>>)>>)>>).clusters,
        UserConfigCohorts)

\* the WorkerSets and the user-authored management config of a topology whose
\* user declares a flavor, a ClusterQueue and a LocalQueue under names that
\* the WorkerSet's template declares too
MergedWorkerSets ==
    <<WorkerSet("gpu-ws", TemplateSimple, <<Worker("worker-1", <<GpuPoolA(2), CpuPool>>)>>)>>

MergedUserConfig == [UserConfigOwnQueues EXCEPT !.LocalQueues[2].ClusterQueue = "user-cq"]

\* the config topology.Create derives from them for the management cluster
ProvisionConfigMerged ==
    DeriveManagementKueueConfig(MergedWorkerSets, ExpandWorkerSets(MergedWorkerSets).clusters,
                                MergedUserConfig)

ProvisionConfigs ==
    {Nil, KueueConfig(<<>>, <<>>, <<>>, <<>>, <<>>), UserConfigCohorts, UserConfigOwnQueues,
     UserConfigDerivedRef, UserConfigRepeatedQueue, UserConfigBadLimit, ProvisionConfigFull,
     ProvisionConfigDerived, ProvisionConfigMerged}

ProvisionInit ==
    /\ kueueConfig \in ProvisionConfigs
    /\ calls = <<>>
    /\ returned = Unset
    /\ topo = Unset
    /\ validated = Unset
    /\ expanded = Unset
    /\ derived = Unset
    /\ heap = NoHeap
    /\ clusterObjects = NoObjects
    /\ NotCreating

ProvisionNext ==
    \/ CreateCohort
    \/ CreateResourceFlavor
    \/ CreateClusterQueue
    \/ CreateWorkloadPriorityClass
    \/ CreateNamespace
    \/ CreateLocalQueue
    \/ ProvisionReturn

ProvisionSpec == ProvisionInit /\ [][ProvisionNext]_vars

-----------------------------------------------------------------------------
(* cmd: runTopologyCreate, and pkg/topology: Create.  A step is a call that  *)
(* can fail; the host answers it with success or with an error.  A call of  *)
(* createCluster, of createClusterInfrastructure, of                        *)
(* SetupMultiKueueInfrastructure or of ProvisionKueueObjects is one step,   *)
(* with every place it can fail at.                                         *)

\* a call in the trace: cluster is the index of the cluster in allClusters, 0
\* for a call that is about no cluster
Event(op, cluster, name, ok) == [op |-> op, cluster |-> cluster, name |-> name, ok |-> ok]

\* fmt.Sprintf("%s-%s", t.metadata.Name, clusterName)
getKindClusterName(topologyName, clusterName) == topologyName \o "-" \o clusterName

\* allClusters: the explicit clusters, then the expanded workers
allClusters(t, expandedWorkers) == t.Spec.Clusters \o expandedWorkers

\* the indices of allClusters the switch puts in workerClusters, in order
workerClusters(all) == SelectSeq([i \in DOMAIN all |-> i], LAMBDA i : all[i].Role = RoleWorker)

\* the indices the default case puts in standaloneClusters, in order
standaloneClusters(all) ==
    SelectSeq([i \in DOMAIN all |-> i],
              LAMBDA i : all[i].Role # RoleWorker /\ all[i].Role # RoleManagement)

\* managementCluster: every cluster of role management overwrites the pointer,
\* so the last one stays; 0 for nil
managementCluster(all) ==
    IF \E i \in DOMAIN all : all[i].Role = RoleManagement
    THEN MaxOf({i \in DOMAIN all : all[i].Role = RoleManagement})
    ELSE 0

\* the loop over the standalone clusters put before that over the workers
standaloneClustersFirst(all) == standaloneClusters(all) \o workerClusters(all)

\* the clusters the two createCluster loops go through: workers, then standalone
createClusterOrder(all) == workerClusters(all) \o standaloneClusters(all)

\* the clusters of the run, once ExpandWorkerSets has returned them
AllClusters == allClusters(topo, expanded.clusters)

\* how a call of createClusterInfrastructure can end.  "exists": CreateCluster
\* finds the kind cluster in provider.List; "create": provider.List or
\* provider.Create fails and no cluster is there; "export": provider.Create
\* made the cluster and ExportKubeconfig fails; "install": kwok.Install,
\* kwok.CreateNodes, kueue.Install or InstallExtensions fails; "ok"
InfrastructureOutcomes(kindClusterName) ==
    IF kindClusterName \in host.clusters THEN {"exists", "create"}
    ELSE {"create", "export", "install", "ok"}

\* createClusterInfrastructure(clusterCfg) ending with that outcome: the kind
\* cluster is on the host from provider.Create on, in createdClusters once
\* CreateCluster has returned nil, in the metadata after the last install
createClusterInfrastructure(c, outcome) ==
    /\ host' = [host EXCEPT !.clusters =
                    IF outcome \in {"export", "install", "ok"}
                    THEN @ \cup {getKindClusterName(topo.Metadata.Name, AllClusters[c].Name)}
                    ELSE @]
    /\ createdClusters' =
            IF outcome \in {"install", "ok"}
            THEN Append(createdClusters,
                        getKindClusterName(topo.Metadata.Name, AllClusters[c].Name))
            ELSE createdClusters
    /\ metadata' =
            IF outcome = "ok"
            THEN MapAssign(metadata, AllClusters[c].Name,
                           getKindClusterName(topo.Metadata.Name, AllClusters[c].Name))
            ELSE metadata

\* how a call of ProvisionKueueObjects can end: "nil", "error" when a Create
\* call fails, "panic" when BuildClusterQueue reaches a quantity MustParse
\* does not parse.  The Create calls before the first such ClusterQueue can fail.
ProvisionOutcomes(cfg) ==
    IF cfg = Nil THEN {"nil"}
    ELSE LET bad == {i \in DOMAIN cfg.ClusterQueues :
                        BuildClusterQueue(cfg.ClusterQueues[i]) = Panic}
         IN  IF bad = {}
             THEN {"nil"} \cup
                  (IF Len(cfg.Cohorts) + Len(cfg.ResourceFlavors) + Len(cfg.ClusterQueues)
                        + Len(cfg.PriorityClasses) + Len(cfg.LocalQueues) > 0
                   THEN {"error"} ELSE {})
             ELSE {"panic"} \cup
                  (IF Len(cfg.Cohorts) + Len(cfg.ResourceFlavors) + MinOf(bad) - 1 > 0
                   THEN {"error"} ELSE {})

\* return nil, err: the deferred function runs next
Fail == position' = At("defer", 0) /\ createErr' = Returned("error")

\* a panic goes through the deferred function with err nil, which does nothing
PanicNow == position' = At("panicked", 0) /\ createErr' = createErr

\* topology.Create called whatever ValidateTopology returned
createWithoutValidation(outcome) == At("mkdir", 0)

\* if err := config.ValidateTopology(cfg); err != nil { return ... }: Create is
\* called for a topology that was accepted only
afterValidateTopology(outcome) ==
    IF outcome = Accepted THEN At("mkdir", 0) ELSE At("returned", 0)

\* runTopologyCreate: the name is required, then ValidateTopology(cfg), then
\* topology.Create; an error of the first two is returned without Create
RunValidateTopology ==
    /\ position = At("validate", 0)
    /\ IF topo.Metadata.Name = ""
       THEN /\ position' = At("returned", 0)
            /\ UNCHANGED <<validated, trace>>
       ELSE \E outcome \in ValidateTopology(topo) :
              /\ validated' = outcome
              /\ trace' = Append(trace, Event("ValidateTopology", 0, "", outcome = Accepted))
              /\ position' = afterValidateTopology(outcome)
    /\ UNCHANGED <<topo, expanded, derived, heap, provisionVars, createdClusters, metadata,
                   host, createErr>>

\* os.MkdirAll(topologyDir): an error is returned before the cleanup is deferred
MkdirAll ==
    /\ position = At("mkdir", 0)
    /\ \E ok \in BOOLEAN :
          /\ host' = [host EXCEPT !.dir = @ \/ ok]
          /\ position' = IF ok THEN At("expand", 0) ELSE At("returned", 0)
          /\ createErr' = IF ok THEN createErr ELSE Returned("error")
    /\ UNCHANGED <<topo, validated, expanded, derived, heap, provisionVars, createdClusters,
                   metadata, trace>>

\* expandedWorkers, err := config.ExpandWorkerSets(cfg.Spec.WorkerSets)
CallExpandWorkerSets ==
    /\ position = At("expand", 0)
    /\ expanded' = ExpandWorkerSets(topo.Spec.WorkerSets)
    /\ trace' = Append(trace, Event("ExpandWorkerSets", 0, "", expanded'.err = NoErr))
    /\ IF expanded'.err = NoErr
       THEN position' = At("clusters", 0) /\ createErr' = createErr
       ELSE Fail
    /\ UNCHANGED <<topo, validated, derived, heap, provisionVars, createdClusters, metadata,
                   host>>

\* createCluster for the next cluster of the two loops: the infrastructure and,
\* for a cluster with a Kueue config, kueue.NewClient and ProvisionKueueObjects
createCluster ==
    /\ position.at = "clusters"
    /\ position.n < Len(createClusterOrder(AllClusters))
    /\ LET c == createClusterOrder(AllClusters)[position.n + 1]
       IN  \E outcome \in InfrastructureOutcomes(
                            getKindClusterName(topo.Metadata.Name, AllClusters[c].Name)) :
           \E provisioned \in {"client"} \cup ProvisionOutcomes(AllClusters[c].Kueue) :
              /\ createClusterInfrastructure(c, outcome)
              /\ IF outcome # "ok"
                 THEN /\ provisioned = "client"
                      /\ trace' = Append(trace, Event("CreateCluster", c, outcome, FALSE))
                      /\ Fail
                 ELSE IF AllClusters[c].Kueue = Nil
                 THEN /\ provisioned = "nil"
                      /\ trace' = Append(trace, Event("CreateCluster", c, outcome, TRUE))
                      /\ position' = At("clusters", position.n + 1)
                      /\ createErr' = createErr
                 ELSE IF provisioned = "client"
                 THEN /\ trace' = trace \o <<Event("CreateCluster", c, outcome, TRUE),
                                             Event("NewClient", c, "", FALSE)>>
                      /\ Fail
                 ELSE /\ trace' = trace \o <<Event("CreateCluster", c, outcome, TRUE),
                                             Event("NewClient", c, "", TRUE),
                                             Event("ProvisionKueueObjects", c, provisioned,
                                                   provisioned = "nil")>>
                      /\ CASE provisioned = "nil" ->
                                /\ position' = At("clusters", position.n + 1)
                                /\ createErr' = createErr
                           [] provisioned = "error" -> Fail
                           [] provisioned = "panic" -> PanicNow
    /\ UNCHANGED <<topo, validated, expanded, derived, heap, provisionVars>>

\* both loops are through: on to the management cluster, if there is one
ClustersCreated ==
    /\ position.at = "clusters"
    /\ position.n = Len(createClusterOrder(AllClusters))
    /\ position' = IF managementCluster(AllClusters) # 0 THEN At("management", 0)
                                                        ELSE At("save", 0)
    /\ UNCHANGED <<topo, validated, expanded, derived, heap, provisionVars, createdClusters,
                   metadata, host, trace, createErr>>

\* createClusterInfrastructure for the management cluster, then kueue.NewClient
ManagementInfrastructure ==
    /\ position = At("management", 0)
    /\ LET c == managementCluster(AllClusters)
       IN  \E outcome \in InfrastructureOutcomes(
                            getKindClusterName(topo.Metadata.Name, AllClusters[c].Name)) :
           \E client \in BOOLEAN :
              /\ createClusterInfrastructure(c, outcome)
              /\ IF outcome # "ok"
                 THEN /\ client
                      /\ trace' = Append(trace, Event("CreateCluster", c, outcome, FALSE))
                      /\ Fail
                 ELSE /\ trace' = trace \o <<Event("CreateCluster", c, outcome, TRUE),
                                             Event("NewClient", c, "", client)>>
                      /\ IF client
                         THEN position' = At("setup", 0) /\ createErr' = createErr
                         ELSE Fail
    /\ UNCHANGED <<topo, validated, expanded, derived, heap, provisionVars>>

\* the Create calls of SetupMultiKueueInfrastructure, in order: for every
\* WorkerSet the Secret and the MultiKueueCluster of every worker, then the
\* MultiKueueConfig and the AdmissionCheck named after the WorkerSet
SetupCalls(workerSets) ==
    ConcatAll([i \in DOMAIN workerSets |->
        ConcatAll([j \in DOMAIN workerSets[i].Workers |->
            <<[op |-> "CreateKubeconfigSecret", name |-> workerSets[i].Workers[j].Name],
              [op |-> "CreateMultiKueueCluster", name |-> workerSets[i].Workers[j].Name]>>])
        \o <<[op |-> "CreateMultiKueueConfig", name |-> workerSets[i].Name],
             [op |-> "CreateAdmissionCheck", name |-> workerSets[i].Name]>>])

\* with WorkerSets: cluster.GetKubeconfig for the worker clusters, then
\* SetupMultiKueueInfrastructure, whose first Create call that fails ends it
SetupMultiKueueInfrastructure ==
    /\ position = At("setup", 0)
    /\ IF Len(topo.Spec.WorkerSets) = 0
       THEN /\ position' = At("derive", 0)
            /\ UNCHANGED <<trace, createErr>>
       ELSE \/ /\ trace' = Append(trace, Event("GetKubeconfig", 0, "", FALSE))
               /\ Fail
            \/ \E made \in 0..Len(SetupCalls(topo.Spec.WorkerSets)) :
                 /\ trace' = trace \o
                        [k \in 1..MinOf({made + 1, Len(SetupCalls(topo.Spec.WorkerSets))}) |->
                            Event(SetupCalls(topo.Spec.WorkerSets)[k].op,
                                  managementCluster(AllClusters),
                                  SetupCalls(topo.Spec.WorkerSets)[k].name,
                                  k <= made)]
                 /\ IF made = Len(SetupCalls(topo.Spec.WorkerSets))
                    THEN position' = At("derive", 0) /\ createErr' = createErr
                    ELSE Fail
    /\ UNCHANGED <<topo, validated, expanded, derived, heap, provisionVars, createdClusters,
                   metadata, host>>

\* derivedConfig := config.DeriveManagementKueueConfig(...), and
\* ProvisionKueueObjects with it unless it is nil
DeriveAndProvision ==
    /\ position = At("derive", 0)
    /\ derived' = [source  |-> "ExpandWorkerSets",
                   workers |-> expanded.clusters,
                   cfg     |-> AllClusters[managementCluster(AllClusters)].Kueue,
                   result  |-> DeriveManagementKueueConfig(topo.Spec.WorkerSets,
                                   expanded.clusters,
                                   AllClusters[managementCluster(AllClusters)].Kueue)]
    /\ IF derived'.result = Panic
       THEN /\ trace' = Append(trace, Event("DeriveManagementKueueConfig", 0, "panic", FALSE))
            /\ PanicNow
       ELSE \E provisioned \in ProvisionOutcomes(derived'.result) :
              /\ trace' = trace \o
                    <<Event("DeriveManagementKueueConfig", 0, "", TRUE)>> \o
                    (IF derived'.result = Nil THEN <<>>
                     ELSE <<Event("ProvisionKueueObjects", managementCluster(AllClusters),
                                  provisioned, provisioned = "nil")>>)
              /\ CASE provisioned = "nil" ->
                        position' = At("save", 0) /\ createErr' = createErr
                   [] provisioned = "error" -> Fail
                   [] provisioned = "panic" -> PanicNow
    /\ UNCHANGED <<topo, validated, expanded, heap, provisionVars, createdClusters, metadata,
                   host>>

\* t.save(): the metadata file is written in the topology directory
Save ==
    /\ position = At("save", 0)
    /\ \E ok \in BOOLEAN :
          /\ trace' = Append(trace, Event("save", 0, "", ok))
          /\ host' = [host EXCEPT !.saved = ok]
          /\ IF ok THEN position' = At("defer", 0) /\ createErr' = Returned("nil")
                   ELSE Fail
    /\ UNCHANGED <<topo, validated, expanded, derived, heap, provisionVars, createdClusters,
                   metadata>>

\* the deferred function: when err is not nil, DeleteCluster for every tracked
\* cluster and os.RemoveAll(topologyDir), a failure of either being a warning
Cleanup ==
    /\ position = At("defer", 0)
    /\ position' = At("returned", 0)
    /\ IF createErr = Returned("nil")
       THEN UNCHANGED <<host, trace>>
       ELSE \E kept \in SUBSET {createdClusters[i] : i \in DOMAIN createdClusters} :
            \E removed \in BOOLEAN :
               /\ trace' = trace \o
                     [i \in DOMAIN createdClusters |->
                        Event("DeleteCluster", 0, createdClusters[i],
                              createdClusters[i] \notin kept)] \o
                     <<Event("RemoveAll", 0, "", removed)>>
               /\ host' = [clusters |-> host.clusters \
                                ({createdClusters[i] : i \in DOMAIN createdClusters} \ kept),
                           dir      |-> host.dir /\ ~removed,
                           saved    |-> host.saved /\ ~removed]
    /\ UNCHANGED <<topo, validated, expanded, derived, heap, provisionVars, createdClusters,
                   metadata, createErr>>

\* a WorkerSet of two workers beside a standalone and a management cluster
CreateWorkerSetFull ==
    WorkerSet("gpu-ws", TemplateFull,
              <<Worker("worker-1", <<GpuPoolA(2), CpuPool>>),
                Worker("worker-2", <<GpuPoolB, CpuPool>>)>>)

CreateWorkerSetSimple ==
    WorkerSet("gpu-ws", TemplateSimple, <<Worker("worker-1", <<GpuPoolA(1), CpuPool>>)>>)

\* the topologies Create is run on: with and without WorkerSets, with no, one
\* and two management clusters, with a config whose limit does not parse, with
\* a cluster name declared twice, and topologies that validation rejects
CreateTopologies ==
    {Topology(APIVersion, KindTopology, "bench",
              <<Management("mgmt", UserConfigOwnQueues), Standalone("solo")>>,
              <<CreateWorkerSetFull>>),
     Topology(APIVersion, KindTopology, "bench",
              <<Management("mgmt", UserConfigOwnQueues), Management("mgmt-2", Nil)>>,
              <<CreateWorkerSetSimple>>),
     Topology(APIVersion, KindTopology, "bench", <<Standalone("solo")>>,
              <<CreateWorkerSetSimple>>),
     Topology(APIVersion, KindTopology, "bench", <<Management("mgmt", UserConfigDerivedRef)>>,
              <<CreateWorkerSetSimple,
                WorkerSet("cpu-ws", TemplateFull, <<Worker("worker-3", <<GpuPoolB, CpuPool>>)>>)>>),
     Topology(APIVersion, KindTopology, "bench", <<Management("mgmt", Nil)>>,
              <<WorkerSet("gpu-ws", TemplateDangling,
                          <<Worker("worker-1", <<GpuPoolA(1), CpuPool>>)>>)>>),
     Topology(APIVersion, KindTopology, "bench",
              <<Standalone("worker-1"), Management("mgmt", UserConfigCohorts)>>,
              <<CreateWorkerSetSimple>>),
     Topology(APIVersion, KindTopology, "bench",
              <<ClusterConfig("solo", RoleStandalone, <<CpuPool>>, UserConfigBadLimit)>>, <<>>),
     Topology(APIVersion, KindTopology, "bench",
              <<Management("mgmt", UserConfigBadLimit)>>, <<>>),
     Topology(APIVersion, KindTopology, "bench",
              <<Management("mgmt", Nil), Standalone("solo"),
                Management("mgmt", UserConfigCohorts)>>, <<>>),
     Topology(APIVersion, KindTopology, "bench",
              <<Standalone("solo"), ClusterConfig("solo", RoleStandalone, <<CpuPool>>, Nil)>>,
              <<>>),
     Topology(APIVersion, KindTopology, "bench",
              <<Management("mgmt", UserConfigCohorts), Management("mgmt-2", Nil),
                Standalone("solo")>>, <<>>),
     Topology(APIVersion, KindTopology, "", <<Standalone("solo")>>, <<>>)}

\* the kind clusters on the host before the run: none, or one that has the
\* name the run gives one of its own
CreateInit ==
    /\ topo \in CreateTopologies
    /\ validated = Unset
    /\ expanded = Unset
    /\ derived = Unset
    /\ heap = NoHeap
    /\ NotProvisioning
    /\ position = At("validate", 0)
    /\ createdClusters = <<>>
    /\ metadata = NoMetadata
    /\ host \in {EmptyHost, [EmptyHost EXCEPT !.clusters = {"bench-solo"}]}
    /\ trace = <<>>
    /\ createErr = Unset

CreateNext ==
    \/ RunValidateTopology
    \/ MkdirAll
    \/ CallExpandWorkerSets
    \/ createCluster
    \/ ClustersCreated
    \/ ManagementInfrastructure
    \/ SetupMultiKueueInfrastructure
    \/ DeriveAndProvision
    \/ Save
    \/ Cleanup

CreateSpec == CreateInit /\ [][CreateNext]_vars

-----------------------------------------------------------------------------
(* The claims *)

WS == topo.Spec.WorkerSets

\* the topology passed ValidateTopology
Valid == validated = Accepted

\* ExpandWorkerSets returned clusters and no error
Expanded == expanded # Unset /\ expanded.err = NoErr

\* DeriveManagementKueueConfig has been applied to the output of ExpandWorkerSets
Aggregated == derived # Unset /\ derived.source = "ExpandWorkerSets"

\* DeriveManagementKueueConfig has returned a config for one WorkerSet or more
Merged == derived # Unset /\ Len(WS) > 0 /\ derived.result # Panic

\* where the ClusterQueues of WorkerSet i start in the derived list, and where
\* its workers start in the expanded list
CQOffset(i) == SumSeq([a \in 1..(i - 1) |-> Len(WS[a].ClusterQueues)])

WorkerOffset(i) == SumSeq([a \in 1..(i - 1) |-> Len(WS[a].Workers)])

\* the first ClusterQueue of that name in a list
QueueNamed(cqs, name) == cqs[FirstIndexNamed(cqs, NameOf, name)]

\* a nominal quota in thousandths
NominalMilli(cq, g, f, r) ==
    ParseQuantity(cq.ResourceGroups[g].Flavors[f].Resources[r].NominalQuota).q.milli

\* the (resource group, flavor, resource) positions of a ClusterQueue
Positions(cq) ==
    UNION {UNION {{<<g, f, r>> : r \in DOMAIN cq.ResourceGroups[g].Flavors[f].Resources} :
                    f \in DOMAIN cq.ResourceGroups[g].Flavors} :
            g \in DOMAIN cq.ResourceGroups}

\* the positions a ClusterQueue template declares
TemplatePositions(q) ==
    UNION {{<<g, f, r>> : f \in DOMAIN q.ResourceGroups[g].Flavors,
                          r \in DOMAIN q.ResourceGroups[g].CoveredResources} :
            g \in DOMAIN q.ResourceGroups}

\* C1: quota conservation.  For a topology that passed validation, aggregation
\* of the expanded workers returns a config in which, for every WorkerSet and
\* every ClusterQueue template q of it, the derived ClusterQueue is named q,
\* has the positions the (first) template named q declares, and at each of
\* them a nominal quota that parses to exactly the sum, over the workers of the
\* WorkerSet, of the quota at that position of the worker's ClusterQueue named q.
QuotaConservation ==
    (Valid /\ Aggregated) =>
        /\ derived.result # Panic
        /\ \A i \in DOMAIN WS : \A c \in DOMAIN WS[i].ClusterQueues :
            LET q  == WS[i].ClusterQueues[c]
                mq == derived.result.ClusterQueues[CQOffset(i) + c]
            IN  /\ mq.Name = q.Name
                /\ Positions(mq) = TemplatePositions(QueueNamed(WS[i].ClusterQueues, q.Name))
                /\ \A p \in Positions(mq) :
                    /\ ParseQuantity(mq.ResourceGroups[p[1]].Flavors[p[2]]
                                       .Resources[p[3]].NominalQuota).ok
                    /\ NominalMilli(mq, p[1], p[2], p[3]) =
                        SumSeq([j \in DOMAIN WS[i].Workers |->
                            NominalMilli(QueueNamed(derived.workers[WorkerOffset(i) + j]
                                                        .Kueue.ClusterQueues, q.Name),
                                         p[1], p[2], p[3])])

\* two workers with different quotas, 12 and 1.5, that add up to 13.5
QuotaConservationWitness ==
    /\ Valid /\ Aggregated /\ derived.result # Panic
    /\ Len(WS) = 1 /\ Len(WS[1].Workers) = 2
    /\ \E p \in Positions(derived.result.ClusterQueues[1]) :
        /\ derived.result.ClusterQueues[1].ResourceGroups[p[1]].Flavors[p[2]]
                .Resources[p[3]].NominalQuota = Q(4500, "m")
        /\ NominalMilli(derived.workers[1].Kueue.ClusterQueues[1], p[1], p[2], p[3]) = 1500
        /\ NominalMilli(derived.workers[2].Kueue.ClusterQueues[1], p[1], p[2], p[3]) = 3000

\* C2: per-node multiplication exactness.  In every expanded cluster, for every
\* flavor entry of every resource group of every ClusterQueue whose pool (the
\* worker's pool the flavor is mapped to) has count n >= 1, the nominal quota
\* of each covered resource is the canonical text of exactly n times the pool's
\* per-node quantity, thousandths included.
MultiplicationExactness ==
    Expanded =>
        \A i \in DOMAIN WS : \A j \in DOMAIN WS[i].Workers :
            LET cluster == expanded.clusters[WorkerOffset(i) + j]
                pools   == PoolsOf(WS[i].Workers[j].NodePools)
                refs    == FlavorPoolsOf(WS[i].ResourceFlavors)
            IN  \A c \in DOMAIN cluster.Kueue.ClusterQueues :
                  \A p \in Positions(cluster.Kueue.ClusterQueues[c]) :
                    LET rg     == cluster.Kueue.ClusterQueues[c].ResourceGroups[p[1]]
                        pool   == pools[refs[rg.Flavors[p[2]].Name]]
                        v      == ParseQuantity(pool.Resources[rg.CoveredResources[p[3]]]).q
                    IN  pool.Count >= 1 =>
                          /\ rg.Flavors[p[2]].Resources[p[3]].Name = rg.CoveredResources[p[3]]
                          /\ rg.Flavors[p[2]].Resources[p[3]].NominalQuota =
                                QuantityString([milli  |-> pool.Count * v.milli,
                                                format |-> v.format])

\* 500m on each of 3 nodes is 1500m
MultiplicationExactnessWitness ==
    /\ Expanded
    /\ \E k \in DOMAIN expanded.clusters :
        /\ \E n \in DOMAIN expanded.clusters[k].NodePools :
            /\ expanded.clusters[k].NodePools[n].Count = 3
            /\ "cpu" \in DOMAIN expanded.clusters[k].NodePools[n].Resources
            /\ expanded.clusters[k].NodePools[n].Resources["cpu"] = Q(500, "m")
        /\ \E c \in DOMAIN expanded.clusters[k].Kueue.ClusterQueues :
            \E p \in Positions(expanded.clusters[k].Kueue.ClusterQueues[c]) :
                expanded.clusters[k].Kueue.ClusterQueues[c].ResourceGroups[p[1]].Flavors[p[2]]
                    .Resources[p[3]].NominalQuota = Q(1500, "m")

\* C3: admission-check prepending.  Whenever DeriveManagementKueueConfig returns
\* a config for one WorkerSet or more, the ClusterQueue derived for WorkerSet
\* ws and template q has the admission checks <<ws.Name>> followed by q's
\* declared checks in their order.
AdmissionCheckPrepending ==
    Merged =>
        \A i \in DOMAIN WS : \A c \in DOMAIN WS[i].ClusterQueues :
            LET mq == derived.result.ClusterQueues[CQOffset(i) + c]
            IN  /\ mq.Name = WS[i].ClusterQueues[c].Name
                /\ mq.AdmissionChecks[1] = WS[i].Name
                /\ Tail(mq.AdmissionChecks) = WS[i].ClusterQueues[c].AdmissionChecks

\* a template with two declared checks behind the WorkerSet's, and one with none
AdmissionCheckPrependingWitness ==
    /\ Merged
    /\ \E k \in DOMAIN derived.result.ClusterQueues :
        derived.result.ClusterQueues[k].AdmissionChecks = <<"gpu-ws", "extra-check", "audit">>
    /\ \E k \in DOMAIN derived.result.ClusterQueues :
        derived.result.ClusterQueues[k].AdmissionChecks = <<"gpu-ws">>

\* the clusters of spec.clusters with role management
ManagementClusters ==
    {i \in DOMAIN topo.Spec.Clusters : topo.Spec.Clusters[i].Role = RoleManagement}

\* C4: management-cluster cardinality.  A topology with one WorkerSet or more
\* passes ValidateTopology only if exactly one cluster of spec.clusters has
\* role management.
ManagementClusterCardinality ==
    (Valid /\ Len(WS) > 0) => Cardinality(ManagementClusters) = 1

\* C5: LocalQueue dedup.  In the config DeriveManagementKueueConfig returns for
\* a valid topology, no two LocalQueues have the same namespace and name.
LocalQueueDedup ==
    (Valid /\ Merged) =>
        \A a, b \in DOMAIN derived.result.LocalQueues :
            a # b => LocalQueueKey(derived.result.LocalQueues[a]) #
                     LocalQueueKey(derived.result.LocalQueues[b])

\* the elements of a sequence without the later repetitions
FirstSeen(s) == PickIndices(s, {a \in DOMAIN s : \A b \in 1..(a - 1) : s[b] # s[a]})

NamesOf(s) == [k \in DOMAIN s |-> s[k].Name]

\* how many of the user's objects end each list of the merged config
UserFlavorCount == IF derived.cfg = Nil THEN 0 ELSE Len(derived.cfg.ResourceFlavors)

\* the names of the derived ResourceFlavors of the merged config
DerivedFlavorNames ==
    NamesOf(SubSeq(derived.result.ResourceFlavors, 1,
                   Len(derived.result.ResourceFlavors) - UserFlavorCount))

\* C6 as claimed: the derived flavor names are each WorkerSet's names without
\* repetitions within that WorkerSet, one WorkerSet after the other (here for
\* the topologies that passed validation).
FlavorDedupWithinWorkerSet ==
    (Valid /\ Merged) =>
        DerivedFlavorNames =
            ConcatAll([i \in DOMAIN WS |-> FirstSeen(NamesOf(WS[i].ResourceFlavors))])

\* C6 as amended: the derived flavor names are the flavor names of all
\* WorkerSets, in WorkerSet order and then declaration order, without the later
\* repetitions of a name, whichever WorkerSet repeats it.
FlavorDedupAcrossWorkerSets ==
    Merged =>
        DerivedFlavorNames =
            FirstSeen(ConcatAll([i \in DOMAIN WS |-> NamesOf(WS[i].ResourceFlavors)]))

\* two WorkerSets that both declare gpu-flavor, which is derived once
FlavorDedupAcrossWorkerSetsWitness ==
    /\ Merged
    /\ Len(WS) = 2
    /\ \A i \in DOMAIN WS : "gpu-flavor" \in {WS[i].ResourceFlavors[f].Name :
                                                f \in DOMAIN WS[i].ResourceFlavors}
    /\ DerivedFlavorNames = <<"gpu-flavor", "cpu-flavor">>

\* C7: merge.  When DeriveManagementKueueConfig returns a config for one
\* WorkerSet or more and a user-authored config is given, Cohorts and
\* PriorityClasses are the user's, and ResourceFlavors, ClusterQueues and
\* LocalQueues are the derived lists (the flavors of the WorkerSets without
\* repeated names, one ClusterQueue per template, the LocalQueues of the
\* WorkerSets without repeated keys) followed by the user's lists; without a
\* user-authored config the three lists are the derived ones and Cohorts and
\* PriorityClasses are empty.
MergeAppendsUserObjects ==
    Merged =>
        LET r == derived.result
            u == IF derived.cfg = Nil
                 THEN KueueConfig(<<>>, <<>>, <<>>, <<>>, <<>>) ELSE derived.cfg
            templates == ConcatAll([i \in DOMAIN WS |-> WS[i].ClusterQueues])
            queues == ConcatAll([i \in DOMAIN WS |-> WS[i].LocalQueues])
            keys == [k \in DOMAIN queues |-> LocalQueueKey(queues[k])]
        IN  /\ r.Cohorts = u.Cohorts
            /\ r.PriorityClasses = u.PriorityClasses
            /\ NamesOf(r.ResourceFlavors) =
                  FirstSeen(ConcatAll([i \in DOMAIN WS |-> NamesOf(WS[i].ResourceFlavors)]))
                  \o NamesOf(u.ResourceFlavors)
            /\ SubSeq(r.ResourceFlavors, Len(r.ResourceFlavors) - Len(u.ResourceFlavors) + 1,
                      Len(r.ResourceFlavors)) = u.ResourceFlavors
            /\ NamesOf(r.ClusterQueues) = NamesOf(templates) \o NamesOf(u.ClusterQueues)
            /\ SubSeq(r.ClusterQueues, Len(templates) + 1, Len(r.ClusterQueues)) = u.ClusterQueues
            /\ r.LocalQueues =
                  PickIndices(queues, {a \in DOMAIN keys :
                                          \A b \in 1..(a - 1) : keys[b] # keys[a]})
                  \o u.LocalQueues

\* a user-authored config with objects of all five kinds, merged behind the
\* two ClusterQueues derived from a WorkerSet
MergeAppendsUserObjectsWitness ==
    /\ Merged
    /\ derived.cfg = UserConfigOwnQueues
    /\ NamesOf(derived.result.ClusterQueues) = <<"team-cq", "batch-cq", "user-cq", "team-cq">>
    /\ Len(derived.result.LocalQueues) = 4

\* C8: expansion order.  When ExpandWorkerSets returns no error it returns one
\* cluster per Worker, in WorkerSet order and then Worker order; the cluster of
\* a Worker has the Worker's name and node pools, role worker, the WorkerSet's
\* LocalQueues, and the flavors, ClusterQueues, resource groups, flavor entries
\* and resources of the template, in the template's order.
ExpansionOrder ==
    Expanded =>
        /\ Len(expanded.clusters) = SumSeq([i \in DOMAIN WS |-> Len(WS[i].Workers)])
        /\ \A i \in DOMAIN WS : \A j \in DOMAIN WS[i].Workers :
            LET cluster == expanded.clusters[WorkerOffset(i) + j]
            IN  /\ cluster.Name = WS[i].Workers[j].Name
                /\ cluster.Role = RoleWorker
                /\ cluster.NodePools = WS[i].Workers[j].NodePools
                /\ cluster.Kueue.LocalQueues = WS[i].LocalQueues
                /\ NamesOf(cluster.Kueue.ResourceFlavors) = NamesOf(WS[i].ResourceFlavors)
                /\ NamesOf(cluster.Kueue.ClusterQueues) = NamesOf(WS[i].ClusterQueues)
                /\ \A c \in DOMAIN WS[i].ClusterQueues :
                    LET rgs == cluster.Kueue.ClusterQueues[c].ResourceGroups
                        wsRGs == WS[i].ClusterQueues[c].ResourceGroups
                    IN  /\ DOMAIN rgs = DOMAIN wsRGs
                        /\ \A g \in DOMAIN wsRGs :
                            /\ rgs[g].CoveredResources = wsRGs[g].CoveredResources
                            /\ NamesOf(rgs[g].Flavors) = NamesOf(wsRGs[g].Flavors)
                            /\ \A f \in DOMAIN wsRGs[g].Flavors :
                                NamesOf(rgs[g].Flavors[f].Resources) = wsRGs[g].CoveredResources

\* two WorkerSets, of two workers and of one
ExpansionOrderWitness ==
    /\ Expanded
    /\ Len(WS) = 2
    /\ NamesOf(expanded.clusters) = <<"worker-1", "worker-2", "worker-3">>
    /\ Len(expanded.clusters[1].Kueue.ClusterQueues) = 2
    /\ Len(expanded.clusters[3].Kueue.ClusterQueues) = 1

\* C9: flavor derivation.  When ExpandWorkerSets returns no error, for every
\* flavor {name, nodePoolRef} of a WorkerSet and every Worker of it, the
\* flavor at the same place in the Worker's cluster has that name, the labels
\* of the Worker's pool named nodePoolRef (the last of that name, should
\* several pools share it) and one toleration per taint of that pool, in the
\* taints' order, with the taint's key, value and effect and operator Equal.
FlavorDerivation ==
    Expanded =>
        \A i \in DOMAIN WS : \A j \in DOMAIN WS[i].Workers :
          \A f \in DOMAIN WS[i].ResourceFlavors :
            LET flavor == expanded.clusters[WorkerOffset(i) + j].Kueue.ResourceFlavors[f]
                nodePools == WS[i].Workers[j].NodePools
                pool == nodePools[LastIndexNamed(nodePools, NameOf,
                                                 WS[i].ResourceFlavors[f].NodePoolRef)]
            IN  /\ flavor.Name = WS[i].ResourceFlavors[f].Name
                /\ flavor.NodeLabels = pool.Labels
                /\ DOMAIN flavor.Tolerations = DOMAIN pool.Taints
                /\ \A t \in DOMAIN pool.Taints :
                    /\ flavor.Tolerations[t].Key = pool.Taints[t].Key
                    /\ flavor.Tolerations[t].Value = pool.Taints[t].Value
                    /\ flavor.Tolerations[t].Effect = pool.Taints[t].Effect
                    /\ flavor.Tolerations[t].Operator = "Equal"

\* a flavor of a pool with two labels and two taints
FlavorDerivationWitness ==
    /\ Expanded
    /\ \E k \in DOMAIN expanded.clusters :
        \E f \in DOMAIN expanded.clusters[k].Kueue.ResourceFlavors :
            LET flavor == expanded.clusters[k].Kueue.ResourceFlavors[f]
            IN  /\ flavor.NodeLabels = ("cloud" :> "gcp") @@ ("zone" :> "b")
                /\ Len(flavor.Tolerations) = 2
                /\ flavor.Tolerations[1].Value = "true"
                /\ flavor.Tolerations[2].Effect = "NoExecute"

\* C10: no-WorkerSet passthrough.  Without WorkerSets,
\* DeriveManagementKueueConfig returns the user-authored config it is given
\* (nil when that is nil), whatever the expanded workers it is given.
NoWorkerSetPassthrough ==
    (derived # Unset /\ Len(WS) = 0) => derived.result = derived.cfg

\* a user-authored config with queues, returned as given though a worker is
\* passed along
NoWorkerSetPassthroughWitness ==
    /\ derived # Unset
    /\ Len(WS) = 0
    /\ derived.workers # <<>>
    /\ derived.cfg = UserConfigOwnQueues
    /\ derived.result = UserConfigOwnQueues

\* the names of all Workers, in WorkerSet order and then Worker order
AllWorkerNames ==
    ConcatAll([i \in DOMAIN WS |-> [j \in DOMAIN WS[i].Workers |-> WS[i].Workers[j].Name]])

\* a Worker named like a cluster of spec.clusters, or two Workers of one name
WorkerNameCollision(names) ==
    \/ \E a \in DOMAIN names : \E c \in DOMAIN topo.Spec.Clusters :
          topo.Spec.Clusters[c].Name = names[a]
    \/ \E a, b \in DOMAIN names : a < b /\ names[a] = names[b]

\* C11: cross-collision detection.  ValidateTopology accepts no topology in
\* which a Worker has the name of a cluster of spec.clusters or two Workers, of
\* one WorkerSet or of two, have the same name.
CrossCollisionDetection ==
    (validated # Unset /\ WorkerNameCollision(AllWorkerNames)) => validated # Accepted

\* the first worker of the second WorkerSet is refused for the name of a worker
\* of the first WorkerSet
CrossCollisionDetectionWitness ==
    /\ validated # Unset
    /\ validated.kind = "duplicate worker name"
    /\ validated.at = <<2, 1>>
    /\ WS[2].Name # WS[1].Name
    /\ \E j \in DOMAIN WS[1].Workers : WS[1].Workers[j].Name = WS[2].Workers[1].Name

\* C12: cluster names are unique.  ValidateTopology accepts no topology in
\* which two entries of spec.clusters have the same name.
ClusterNameUniqueness ==
    Valid => \A a, b \in DOMAIN topo.Spec.Clusters :
                topo.Spec.Clusters[a].Name = topo.Spec.Clusters[b].Name => a = b

\* the clusters of spec.clusters that have a kueue section
ClustersWithKueue == {c \in DOMAIN topo.Spec.Clusters : topo.Spec.Clusters[c].Kueue # Nil}

\* C13: ClusterQueue names are unique within a cluster.  ValidateTopology
\* accepts no topology in which the kueue section of a cluster declares two
\* ClusterQueues of the same name.
ClusterQueueNameUniqueness ==
    Valid => \A c \in ClustersWithKueue :
                \A a, b \in DOMAIN topo.Spec.Clusters[c].Kueue.ClusterQueues :
                    topo.Spec.Clusters[c].Kueue.ClusterQueues[a].Name =
                    topo.Spec.Clusters[c].Kueue.ClusterQueues[b].Name => a = b

\* the resource lists of the flavor entries of a cluster's ClusterQueues
ResourceLists(k) ==
    UNION {UNION {{k.ClusterQueues[q].ResourceGroups[g].Flavors[f].Resources :
                        f \in DOMAIN k.ClusterQueues[q].ResourceGroups[g].Flavors} :
                    g \in DOMAIN k.ClusterQueues[q].ResourceGroups} :
            q \in DOMAIN k.ClusterQueues}

\* C14: the quota strings of a validated topology parse.  ValidateTopology
\* accepts no topology in which a resource of a cluster's kueue section has a
\* nominalQuota, borrowingLimit or lendingLimit that does not parse: for every
\* resource list of an accepted topology buildResources, which must-parses all
\* three, returns quotas.
QuotaStringsParse ==
    Valid => \A c \in ClustersWithKueue :
                \A resources \in ResourceLists(topo.Spec.Clusters[c].Kueue) :
                    buildResources(resources) # Panic

\* the resources of the pool a flavor name of a WorkerSet leads to in a Worker:
\* none when the name is not declared or the Worker has no pool of that name
PoolResources(flavorPools, pools, flavorName) ==
    IF flavorName \notin DOMAIN flavorPools THEN {}
    ELSE IF flavorPools[flavorName] \notin DOMAIN pools THEN {}
    ELSE DOMAIN pools[flavorPools[flavorName]].Resources

\* every nodePoolRef of the WorkerSet names a pool of the Worker, and every
\* covered resource of every resource group is a resource of the pool of each
\* flavor of the group
WorkerCovers(ws, flavorPools, pools) ==
    /\ \A f \in DOMAIN ws.ResourceFlavors : ws.ResourceFlavors[f].NodePoolRef \in DOMAIN pools
    /\ \A q \in DOMAIN ws.ClusterQueues : \A g \in DOMAIN ws.ClusterQueues[q].ResourceGroups :
        \A f \in DOMAIN ws.ClusterQueues[q].ResourceGroups[g].Flavors :
        \A r \in DOMAIN ws.ClusterQueues[q].ResourceGroups[g].CoveredResources :
            ws.ClusterQueues[q].ResourceGroups[g].CoveredResources[r] \in
                PoolResources(flavorPools, pools,
                              ws.ClusterQueues[q].ResourceGroups[g].Flavors[f].Name)

\* C15: worker coverage.  In a topology ValidateTopology accepts, for every
\* Worker of every WorkerSet, every nodePoolRef of the WorkerSet's flavors
\* names a pool of the Worker and every covered resource of every resource
\* group of every ClusterQueue is in the resource map of the Worker's pool that
\* each flavor of the group refers to.
WorkerCoverage ==
    Valid => \A i \in DOMAIN WS : \A j \in DOMAIN WS[i].Workers :
                WorkerCovers(WS[i], FlavorPoolsOf(WS[i].ResourceFlavors),
                             PoolsOf(WS[i].Workers[j].NodePools))

\* a Worker whose gpu-pool has no gpu, under a queue that covers gpu, is
\* refused for the missing resource
WorkerCoverageWitness ==
    /\ validated # Unset
    /\ validated.kind = "covered resource not found in pool resources"
    /\ validated.names = <<"gpu-ws", "worker-1", "gpu-pool", "gpu">>
    /\ ~WorkerCovers(WS[1], FlavorPoolsOf(WS[1].ResourceFlavors),
                     PoolsOf(WS[1].Workers[1].NodePools))

\* the cohorts of the cluster a validation error is about
CohortsAt(at) == topo.Spec.Clusters[at[1]].Kueue.Cohorts

CohortNames(cohorts) == {cohorts[i].Name : i \in DOMAIN cohorts}

\* no cohort without a name, no name twice, every parent named in the list
CohortsWellFormed(cohorts) ==
    /\ \A i \in DOMAIN cohorts : cohorts[i].Name # ""
    /\ \A i, j \in DOMAIN cohorts : cohorts[i].Name = cohorts[j].Name => i = j
    /\ \A i \in DOMAIN cohorts :
          cohorts[i].ParentName # "" => cohorts[i].ParentName \in CohortNames(cohorts)

\* a cohort error is reported for a cohort that has the defect
CohortErrorJustified(err, cohorts) ==
    /\ err.kind = "cohort: name is required" => cohorts[err.at[2]].Name = ""
    /\ err.kind = "duplicate cohort name" =>
          \E j \in 1..(err.at[2] - 1) : cohorts[j].Name = cohorts[err.at[2]].Name
    /\ err.kind = "unknown parent cohort" =>
          /\ cohorts[err.at[2]].ParentName # ""
          /\ cohorts[err.at[2]].ParentName \notin CohortNames(cohorts)

CohortErrorKinds ==
    {"cohort: name is required", "duplicate cohort name", "unknown parent cohort"}

\* C16: cohort parent references are order-independent.  An accepted topology
\* has, in every kueue section, cohorts with names, no name twice and every
\* parentName naming a cohort of the same list, declared before or after; and
\* validation reports "unknown parent cohort" only for a parentName that names
\* no cohort of the list, a duplicate only for a name an earlier cohort has,
\* a missing name only for a cohort without one.
CohortParentReferences ==
    /\ Valid => \A c \in ClustersWithKueue : CohortsWellFormed(topo.Spec.Clusters[c].Kueue.Cohorts)
    /\ (validated # Unset /\ validated.kind \in CohortErrorKinds) =>
          CohortErrorJustified(validated, CohortsAt(validated.at))

\* a topology is accepted whose cohort platform names the parent root, which
\* is declared after it
CohortParentReferencesWitness ==
    /\ Valid
    /\ \E c \in ClustersWithKueue :
        \E i, j \in DOMAIN topo.Spec.Clusters[c].Kueue.Cohorts :
            /\ i < j
            /\ topo.Spec.Clusters[c].Kueue.Cohorts[i].ParentName =
                    topo.Spec.Clusters[c].Kueue.Cohorts[j].Name

\* C17: the error for a nodePoolRef that a Worker's pools do not have.  When
\* ExpandWorkerSets fails because the nodePoolRef of a WorkerSetFlavor is not
\* among a Worker's pools, the error names the WorkerSet, the Worker, the
\* flavor and the missing pool: a WorkerSet of that name has a Worker of that
\* name without a pool of that name, and a flavor of that name that refers to
\* that pool.
UnresolvedNodePoolRefMessage ==
    (expanded # Unset /\ expanded.err.kind = "nodePoolRef not found in worker node pools") =>
        \E i \in DOMAIN WS : \E j \in DOMAIN WS[i].Workers : \E f \in DOMAIN WS[i].ResourceFlavors :
            /\ expanded.err.ws = WS[i].Name
            /\ expanded.err.worker = WS[i].Workers[j].Name
            /\ expanded.err.flavor = WS[i].ResourceFlavors[f].Name
            /\ expanded.err.pool = WS[i].ResourceFlavors[f].NodePoolRef
            /\ expanded.err.pool \notin DOMAIN PoolsOf(WS[i].Workers[j].NodePools)

\* C18: validation is deterministic.  The outcome an invocation of
\* ValidateTopology has returned, nil or an error, is the outcome of every
\* invocation on the same topology.
ValidationDeterministic == validated # Unset => ValidateTopology(topo) = {validated}

\* the label maps of the pools of the input Workers
InputLabelAddresses ==
    UNION {UNION {{WS[i].Workers[j].NodePools[k].Labels.ref :
                        k \in {x \in DOMAIN WS[i].Workers[j].NodePools :
                                WS[i].Workers[j].NodePools[x].Labels # Nil}} :
                    j \in DOMAIN WS[i].Workers} :
            i \in DOMAIN WS}

\* C19: expansion copies rather than aliases.  Setting a label of a flavor of
\* an expanded cluster changes the labels of no node pool of the input
\* Workers: no step changes the label map of an input pool.
ExpansionCopiesLabels ==
    [][\A a \in InputLabelAddresses : heap'[a] = heap[a]]_vars

\* the place of a kind in the dependency order
KindRank(kind) ==
    CASE kind = "Cohort"                -> 1
      [] kind = "ResourceFlavor"        -> 2
      [] kind = "ClusterQueue"          -> 3
      [] kind = "WorkloadPriorityClass" -> 4
      [] kind = "Namespace"             -> 5
      [] kind = "LocalQueue"            -> 6

Kinds ==
    {"Cohort", "ResourceFlavor", "ClusterQueue", "WorkloadPriorityClass", "Namespace",
     "LocalQueue"}

\* <<namespace, name>> of the objects of a list, in its order
ClusterScoped(objects) == [i \in DOMAIN objects |-> <<"", objects[i].Name>>]

\* the objects of a kind that a config asks for: a sequence for the kinds
\* created in the order of a list
ListedObjects(k, kind) ==
    CASE kind = "Cohort"                -> ClusterScoped(k.Cohorts)
      [] kind = "ResourceFlavor"        -> ClusterScoped(k.ResourceFlavors)
      [] kind = "ClusterQueue"          -> ClusterScoped(k.ClusterQueues)
      [] kind = "WorkloadPriorityClass" -> ClusterScoped(k.PriorityClasses)
      [] kind = "LocalQueue"            ->
            [i \in DOMAIN k.LocalQueues |->
                <<IF k.LocalQueues[i].Namespace = "" THEN "default"
                  ELSE k.LocalQueues[i].Namespace,
                  k.LocalQueues[i].Name>>]

\* the distinct namespaces of the LocalQueues other than "default", the empty
\* namespace counting as "default"
ExpectedNamespaces(k) ==
    {k.LocalQueues[i].Namespace : i \in DOMAIN k.LocalQueues} \ {"", "default"}

\* the calls for a kind among the first n calls, in order
CallsOfKind(kind, n) == SelectSeq(SubSeq(calls, 1, n), LAMBDA c : c.kind = kind)

\* the first n calls have created every object of the kind
KindComplete(k, kind, n) ==
    /\ \A i \in DOMAIN CallsOfKind(kind, n) : CallsOfKind(kind, n)[i].ok
    /\ IF kind = "Namespace"
       THEN {CallsOfKind(kind, n)[i].name : i \in DOMAIN CallsOfKind(kind, n)} =
                ExpectedNamespaces(k)
       ELSE [i \in DOMAIN CallsOfKind(kind, n) |->
                <<CallsOfKind(kind, n)[i].namespace, CallsOfKind(kind, n)[i].name>>] =
            ListedObjects(k, kind)

\* the calls made so far for a kind are for objects of the config: the first
\* objects of its list in the list's order, or distinct namespaces
KindInOrder(k, kind) ==
    LET made == CallsOfKind(kind, Len(calls))
    IN  IF kind = "Namespace"
        THEN /\ \A i \in DOMAIN made : made[i].name \in ExpectedNamespaces(k)
             /\ \A i, j \in DOMAIN made : made[i].name = made[j].name => i = j
        ELSE /\ Len(made) <= Len(ListedObjects(k, kind))
             /\ \A i \in DOMAIN made :
                    <<made[i].namespace, made[i].name>> = ListedObjects(k, kind)[i]

\* C20: provisioning dependency order.  ProvisionKueueObjects creates Cohorts,
\* then ResourceFlavors, ClusterQueues, PriorityClasses, the namespaces of the
\* LocalQueues (each once, "default" and the empty namespace left out), then
\* LocalQueues: the calls for a kind are for the objects of the config, in the
\* order of their list; when a call for a kind is made every object of every
\* earlier kind has been created successfully; a failed call is the last call
\* and ends the run with its error; nil is returned only after every object
\* has been created; a nil config leads to no call.
ProvisioningOrder ==
    kueueConfig # Unset =>
        IF kueueConfig = Nil THEN calls = <<>>
        ELSE /\ \A kind \in Kinds : KindInOrder(kueueConfig, kind)
             /\ \A j \in DOMAIN calls : \A kind \in Kinds :
                    KindRank(kind) < KindRank(calls[j].kind) =>
                        KindComplete(kueueConfig, kind, j - 1)
             /\ \A j \in DOMAIN calls : ~calls[j].ok =>
                    j = Len(calls) /\ returned = Returned("error")
             /\ returned = Returned("nil") =>
                    \A kind \in Kinds : KindComplete(kueueConfig, kind, Len(calls))

\* a run that returned nil after creating objects of the six kinds, among them
\* two namespaces for five LocalQueues, two of which are in "default"
ProvisioningOrderWitness ==
    /\ kueueConfig = ProvisionConfigFull
    /\ returned = Returned("nil")
    /\ Len(calls) = 12
    /\ \A kind \in Kinds : \E j \in DOMAIN calls : calls[j].kind = kind
    /\ Len(CallsOfKind("Namespace", Len(calls))) = 2
    /\ calls[12].kind = "LocalQueue" /\ calls[12].namespace = "team-a"
    /\ calls[9].namespace = "default" /\ calls[11].namespace = "default"

\* the calls of that name in the trace of the run, by their place in it
CallsOf(op) == {i \in DOMAIN trace : trace[i].op = op}

\* a call of that name returned without error before the i-th call
Succeeded(op, i) == \E j \in CallsOf(op) : j < i /\ trace[j].ok

Done(op, cluster, name, i) ==
    \E j \in 1..(i - 1) : trace[j] = Event(op, cluster, name, TRUE)

\* the cluster was fully created before the i-th call: its infrastructure and,
\* if it has a Kueue config, its Kueue objects
FullyCreated(c, i) ==
    /\ Done("CreateCluster", c, "ok", i)
    /\ AllClusters[c].Kueue # Nil => Done("ProvisionKueueObjects", c, "nil", i)

\* the ClusterQueues of the config applied to the management cluster that are
\* derived from the WorkerSets: they come first in the list
DerivedQueues ==
    SubSeq(derived.result.ClusterQueues, 1,
           SumSeq([a \in DOMAIN topo.Spec.WorkerSets |->
                      Len(topo.Spec.WorkerSets[a].ClusterQueues)]))

\* C22: every call about the management cluster comes after every worker
\* cluster and every standalone cluster was fully created, the workers before
\* the standalone clusters; ProvisionKueueObjects is called for the management
\* cluster only after, for every WorkerSet, the Secret and the MultiKueueCluster
\* of each worker, the MultiKueueConfig and the AdmissionCheck named after the
\* WorkerSet were created; so the first admission check of every derived
\* ClusterQueue was created before the config with that queue is applied.
ManagementClusterLast ==
    \A i \in DOMAIN trace :
        /\ (trace[i].cluster # 0 /\ trace[i].cluster = managementCluster(AllClusters)) =>
              \A k \in DOMAIN createClusterOrder(AllClusters) :
                  FullyCreated(createClusterOrder(AllClusters)[k], i)
        /\ (trace[i].op = "CreateCluster"
                /\ AllClusters[trace[i].cluster].Role \notin {RoleWorker, RoleManagement}) =>
              \A k \in DOMAIN workerClusters(AllClusters) :
                  FullyCreated(workerClusters(AllClusters)[k], i)
        /\ (trace[i].op = "ProvisionKueueObjects"
                /\ trace[i].cluster = managementCluster(AllClusters)) =>
              /\ \A w \in DOMAIN topo.Spec.WorkerSets :
                    /\ \A j \in DOMAIN topo.Spec.WorkerSets[w].Workers :
                          /\ Done("CreateKubeconfigSecret", trace[i].cluster,
                                  topo.Spec.WorkerSets[w].Workers[j].Name, i)
                          /\ Done("CreateMultiKueueCluster", trace[i].cluster,
                                  topo.Spec.WorkerSets[w].Workers[j].Name, i)
                    /\ Done("CreateMultiKueueConfig", trace[i].cluster,
                            topo.Spec.WorkerSets[w].Name, i)
                    /\ Done("CreateAdmissionCheck", trace[i].cluster,
                            topo.Spec.WorkerSets[w].Name, i)
              /\ \A q \in DOMAIN DerivedQueues :
                    /\ DerivedQueues[q].AdmissionChecks # <<>>
                    /\ Done("CreateAdmissionCheck", trace[i].cluster,
                            DerivedQueues[q].AdmissionChecks[1], i)

\* the merged config, with derived ClusterQueues of two WorkerSets, has been
\* applied to the management cluster of a topology that has worker clusters
\* and a standalone cluster
ManagementClusterLastWitness ==
    /\ derived # Unset
    /\ derived.result # Panic
    /\ derived.result # Nil
    /\ Len(DerivedQueues) > 1
    /\ \E i \in CallsOf("ProvisionKueueObjects") :
          /\ trace[i].cluster = managementCluster(AllClusters)
          /\ trace[i].ok
    /\ \E w, c \in DOMAIN AllClusters :
          AllClusters[w].Role = RoleWorker /\ AllClusters[c].Role = RoleStandalone

\* the kind clusters that the run caused to exist: those on the host that
\* were not there before it, and those it made and deleted again
MadeByRun ==
    {getKindClusterName(topo.Metadata.Name, AllClusters[trace[i].cluster].Name) :
        i \in {j \in CallsOf("CreateCluster") : trace[j].name \in {"export", "install", "ok"}}}

\* C23: when topology.Create has returned an error, DeleteCluster has been
\* called for every kind cluster the run caused to exist, the topology
\* directory is removed (if os.RemoveAll succeeded) and no metadata file is
\* saved; with every DeleteCluster call successful, none of those clusters is
\* left on the host.
CleanupOnFailure ==
    (position = At("returned", 0) /\ createErr = Returned("error")) =>
        /\ expanded # Unset /\ expanded.err = NoErr =>
              /\ \A name \in MadeByRun :
                    \E i \in CallsOf("DeleteCluster") : trace[i].name = name
              /\ (\A i \in CallsOf("DeleteCluster") : trace[i].ok) =>
                    host.clusters \cap MadeByRun = {}
        /\ (\A i \in CallsOf("RemoveAll") : trace[i].ok) => ~host.dir
        /\ ~host.saved

\* what DeriveManagementKueueConfig derives from the WorkerSets alone
DerivedObjects ==
    DeriveManagementKueueConfig(MergedWorkerSets, ExpandWorkerSets(MergedWorkerSets).clusters,
                                Nil)

\* the derived ResourceFlavors, ClusterQueues and LocalQueues of that config
\* are on the cluster as they were derived
AppliedAsDerived(config) ==
    /\ \A i \in DOMAIN config.ResourceFlavors :
          clusterObjects[ObjectKey("ResourceFlavor", "", config.ResourceFlavors[i].Name)]
            = config.ResourceFlavors[i]
    /\ \A i \in DOMAIN config.ClusterQueues :
          clusterObjects[ObjectKey("ClusterQueue", "", config.ClusterQueues[i].Name)]
            = BuildClusterQueue(config.ClusterQueues[i])
    /\ \A i \in DOMAIN config.LocalQueues :
          clusterObjects[ObjectKey("LocalQueue", NamespaceOf(config.LocalQueues[i]),
                                   config.LocalQueues[i].Name)]
            = BuildLocalQueue(config.LocalQueues[i])

\* C24: once ProvisionKueueObjects has applied the merged config, every
\* derived ResourceFlavor, ClusterQueue and LocalQueue is on the cluster as it
\* was derived, also where the user-authored config declares an object of the
\* same name (and namespace).
DerivedTakePrecedence ==
    (kueueConfig = ProvisionConfigMerged /\ returned = Returned("nil")) =>
        AppliedAsDerived(DerivedObjects)

\* C25: for a topology that passed validation, ExpandWorkerSets returns no
\* error, and DeriveManagementKueueConfig on its output does not index outside
\* a worker's resource groups, flavors or resources.
ValidationSufficient ==
    Valid =>
        /\ expanded # Unset => expanded.err = NoErr
        /\ Aggregated => derived.result # Panic

\* a topology with two WorkerSets and a management cluster has passed
\* validation, has been expanded and its workers have been aggregated
ValidationSufficientWitness ==
    /\ Valid
    /\ Expanded
    /\ Aggregated
    /\ Len(WS) = 2
    /\ Len(expanded.clusters) > 2
    /\ derived.result # Panic
    /\ Len(derived.result.ClusterQueues) > 2

\* C26: for a topology that passed validation, validateCluster finds no error
\* in any cluster ExpandWorkerSets returned: among its rules, every cohort a
\* ClusterQueue names is declared in the cluster's KueueConfig, every flavor
\* it refers to is declared and every LocalQueue is on a declared ClusterQueue.
ExpansionOutputValid ==
    (Valid /\ Expanded) =>
        \A c \in DOMAIN expanded.clusters :
            validateCluster(expanded.clusters[c], c) = {}

\* the resource groups have the shape of the template's: as many, and in each
\* the same covered resources and the same flavor names in the same order
SameShape(rgs, templateRGs) ==
    /\ Len(rgs) = Len(templateRGs)
    /\ \A g \in DOMAIN rgs :
          /\ rgs[g].CoveredResources = templateRGs[g].CoveredResources
          /\ [f \in DOMAIN rgs[g].Flavors |-> rgs[g].Flavors[f].Name]
                = [f \in DOMAIN templateRGs[g].Flavors |-> templateRGs[g].Flavors[f].Name]
          /\ \A f \in DOMAIN rgs[g].Flavors :
                [r \in DOMAIN rgs[g].Flavors[f].Resources |-> rgs[g].Flavors[f].Resources[r].Name]
                    = templateRGs[g].CoveredResources

\* C27: for a topology that passed validation, the k-th ClusterQueue derived
\* for a WorkerSet has the shape of the k-th ClusterQueue template of the
\* WorkerSet, and each of its quotas is the sum, over the workers of the
\* WorkerSet, of the quota at that position of the worker's k-th ClusterQueue,
\* the one expanded from that template.
TemplatePositionCorrespondence ==
    (Valid /\ Aggregated) =>
        /\ derived.result # Panic
        /\ \A i \in DOMAIN WS : \A k \in DOMAIN WS[i].ClusterQueues :
              /\ SameShape(derived.result.ClusterQueues[CQOffset(i) + k].ResourceGroups,
                           WS[i].ClusterQueues[k].ResourceGroups)
              /\ \A p \in Positions(derived.result.ClusterQueues[CQOffset(i) + k]) :
                    NominalMilli(derived.result.ClusterQueues[CQOffset(i) + k],
                                 p[1], p[2], p[3])
                      = SumSeq([j \in DOMAIN WS[i].Workers |->
                            NominalMilli(derived.workers[WorkerOffset(i) + j]
                                            .Kueue.ClusterQueues[k], p[1], p[2], p[3])])

\* the WorkerSet and the Worker the c-th expanded cluster comes from
SourceOf(c) ==
    CHOOSE ij \in {<<i, j>> : i \in DOMAIN WS, j \in 1..MaxOf({Len(WS[a].Workers) : a \in DOMAIN WS})} :
        ij[2] \in DOMAIN WS[ij[1]].Workers /\ WorkerOffset(ij[1]) + ij[2] = c

\* the quotas of a flavor entry are those of that pool: for every covered
\* resource the pool's quantity times its node count
QuotasOfPool(entry, pool) ==
    \A r \in DOMAIN entry.Resources :
        /\ entry.Resources[r].Name \in DOMAIN pool.Resources
        /\ ParseQuantity(entry.Resources[r].NominalQuota).q.milli
             = pool.Count * ParseQuantity(pool.Resources[entry.Resources[r].Name]).q.milli

\* C28: in every cluster expanded from a topology that passed validation the
\* ResourceFlavor names are pairwise distinct, and the quotas of every flavor
\* entry of a ClusterQueue are computed from the node pool of the worker that
\* the declaration of the ResourceFlavor of that name refers to, the pool whose
\* labels and taints the ResourceFlavor carries.
FlavorQuotaPoolConsistency ==
    (Valid /\ Expanded) =>
        \A c \in DOMAIN expanded.clusters :
            LET flavors == expanded.clusters[c].Kueue.ResourceFlavors
                queues  == expanded.clusters[c].Kueue.ClusterQueues
                ws      == WS[SourceOf(c)[1]]
                pools   == PoolsOf(ws.Workers[SourceOf(c)[2]].NodePools)
            IN  /\ \A x, y \in DOMAIN flavors : flavors[x].Name = flavors[y].Name => x = y
                /\ \A x \in DOMAIN flavors :
                      /\ flavors[x].NodeLabels = pools[ws.ResourceFlavors[x].NodePoolRef].Labels
                      /\ \A q \in DOMAIN queues : \A p \in Positions(queues[q]) :
                            queues[q].ResourceGroups[p[1]].Flavors[p[2]].Name = flavors[x].Name
                              => QuotasOfPool(queues[q].ResourceGroups[p[1]].Flavors[p[2]],
                                              pools[ws.ResourceFlavors[x].NodePoolRef])

\* C29: when topology.Create has returned nil, every entry of spec.clusters
\* and every Worker of every WorkerSet has its kind cluster on the host and its
\* entry in the metadata, one for each, whatever the roles of the clusters.
NoClusterSkipped ==
    (position = At("returned", 0) /\ createErr = Returned("nil")) =>
        /\ \A c \in DOMAIN AllClusters :
              /\ getKindClusterName(topo.Metadata.Name, AllClusters[c].Name) \in host.clusters
              /\ AllClusters[c].Name \in DOMAIN metadata
        /\ Cardinality(DOMAIN metadata) = Len(AllClusters)
        /\ Len(AllClusters)
              = Len(topo.Spec.Clusters)
                + SumSeq([i \in DOMAIN topo.Spec.WorkerSets |->
                             Len(topo.Spec.WorkerSets[i].Workers)])

\* the LocalQueues of the kueue section of cluster m that are on a ClusterQueue
\* which the section does not declare and a WorkerSet does
OnDerivedQueue(t, m) ==
    {i \in DOMAIN t.Spec.Clusters[m].Kueue.LocalQueues :
        /\ \A q \in DOMAIN t.Spec.Clusters[m].Kueue.ClusterQueues :
              t.Spec.Clusters[m].Kueue.ClusterQueues[q].Name
                # t.Spec.Clusters[m].Kueue.LocalQueues[i].ClusterQueue
        /\ \E w \in DOMAIN t.Spec.WorkerSets : \E q \in DOMAIN t.Spec.WorkerSets[w].ClusterQueues :
              t.Spec.WorkerSets[w].ClusterQueues[q].Name
                = t.Spec.Clusters[m].Kueue.LocalQueues[i].ClusterQueue}

\* the topology without those LocalQueues
WithoutLocalQueues(t, m, gone) ==
    [t EXCEPT !.Spec.Clusters[m].Kueue.LocalQueues =
        LET kept == SelectSeq([i \in DOMAIN @ |-> i], LAMBDA i : i \notin gone)
        IN  [k \in DOMAIN kept |-> @[kept[k]]]]

\* C30: a topology whose management cluster declares, in its own kueue
\* section, LocalQueues on ClusterQueues that are derived from a WorkerSet and
\* not declared in the section, and which is accepted without those
\* LocalQueues, is accepted with them.
UserQueueOnDerivedAccepted ==
    validated # Unset =>
        \A m \in DOMAIN topo.Spec.Clusters :
            (/\ topo.Spec.Clusters[m].Role = RoleManagement
             /\ topo.Spec.Clusters[m].Kueue # Nil
             /\ OnDerivedQueue(topo, m) # {}
             /\ ValidateTopology(WithoutLocalQueues(topo, m, OnDerivedQueue(topo, m)))
                    = {Accepted})
                => validated = Accepted

====
